---- MODULE Spec2Model ----
(***************************************************************************)
(* State-machine model of the EDINET ETL pipeline (main.py, src/extract.py,*)
(* src/utils/helper.py, src/transform.py, src/load.py).  Time is counted   *)
(* in tenths of a second, so the jitter factors 0.1 + random() and         *)
(* 0.5 + random() become the integers 1 + r and 5 + r with r drawn from    *)
(* 0..9.                                                                   *)
(***************************************************************************)
EXTENDS Integers, Sequences, FiniteSets, Bags, TLC

VARIABLES
    cfg,              \* config: start_date_str, end_date_str, max_retries, companies_to_get
    remote,           \* what the list endpoint holds for each date
    pc,               \* position of the running coroutine (main or the entry point)
    exc,              \* exception that left the entry point, "none" while there is none
    idxTasks,         \* tasks of get_documents_by_date_range, one per date
    doneQ,            \* index tasks finished and not yet yielded by as_completed
    documents,        \* get_documents_by_date_range: documents
    filtered_docs,    \* main: filtered_docs / download_documents: doc_list
    dlTasks,          \* coroutines gathered by download_documents
    downloaded_files, \* download_documents: downloaded_files
    tempDirs,         \* docIDs whose {output_dir}/temp/{docID} exists
    outFiles,         \* files present in output_dir
    lastSave,         \* the latest return of save_and_extract_document, as seen at that instant
    company_info,     \* main: company_info
    nAcquire,         \* admissions granted by the shared limiter
    nIndexReq,        \* GET documents.json requests issued
    nContentReq,      \* GET documents/{docID} requests issued
    sel,              \* frame of select_best_files_by_company
    parse,            \* frame of parse_csv_file / parse_xbrl_file
    xf,               \* frame of process_financial_documents
    df_result,        \* main: df_result / load_to_csv: df
    ld,               \* frame of load_to_csv and the output directory it writes to
    log               \* records logged by main's tail and by load_to_csv

vars == <<cfg, remote, pc, exc, idxTasks, doneQ, documents, filtered_docs, dlTasks,
          downloaded_files, tempDirs, outFiles, lastSave, company_info, nAcquire, nIndexReq,
          nContentReq, sel, parse, xf, df_result, ld, log>>

\* the state of the transform and load stages
tvars == <<sel, parse, xf, df_result, ld, log>>

\* the state of the extract stage, but for pc and exc
evars == <<cfg, remote, idxTasks, doneQ, documents, filtered_docs, dlTasks, downloaded_files,
           tempDirs, outFiles, lastSave, company_info, nAcquire, nIndexReq, nContentReq>>

----------------------------------------------------------------------------
(* Bounds of the model *)

MaxDate == 2

MaxRetries == 3

RetryDelay == 2

MaxPaths == 3

MaxRows == 8

MaxDocs == 2

MaxRecords == 2

\* the elements of a tree besides its period-end element
MaxElems == 6

MaxList == 2

\* ceilings on tasks * (max_retries + 1), the requests one call can issue
IndexWork == 9

DownloadWork == 4

MainWork == 4

(* Program constants *)

DefaultRetryAfter == 10

IndexJitterFloor == 1

ContentJitterFloor == 5

Jitter == {0, 9}

NoneVal == "None"

----------------------------------------------------------------------------
(* Data: document descriptors as returned by the list endpoint.  Strings   *)
(* that the code takes apart are sequences of characters.                  *)

Stamp1 == <<"2","4","-","0","6","-","2","8"," ","1","5",":","0","0">>

Stamp2 == <<"2","4","-","0","7","-","0","1"," ","0","9",":","3","0">>

D1 == [docID |-> "S1", edinetCode |-> "E1", docTypeCode |-> "120",
       csvFlag |-> "1", xbrlFlag |-> "1", submitDateTime |-> Stamp1]

D2 == [docID |-> "S2", edinetCode |-> "E1", docTypeCode |-> "130",
       csvFlag |-> "0", xbrlFlag |-> "1", submitDateTime |-> Stamp2]

D3 == [docID |-> "S3", edinetCode |-> "E2", docTypeCode |-> "120",
       csvFlag |-> "0", xbrlFlag |-> NoneVal, submitDateTime |-> Stamp1]

D4 == [docID |-> "S4", edinetCode |-> "E3", docTypeCode |-> "120",
       csvFlag |-> "1", xbrlFlag |-> "0", submitDateTime |-> Stamp1]

D5 == [docID |-> "S5", edinetCode |-> "E2", docTypeCode |-> "140",
       csvFlag |-> "1", xbrlFlag |-> "1", submitDateTime |-> Stamp2]

Dates == 0..MaxDate

RemoteA == [d \in Dates |->
              CASE d = 0 -> <<D1, D4>>
                [] d = 1 -> <<D2>>
                [] d = 2 -> <<D3, D5>>
                [] OTHER -> <<>>]

RemoteB == [d \in Dates |->
              CASE d = 0 -> <<D1>>
                [] d = 1 -> <<D1, D2>>
                [] OTHER -> <<D3>>]

----------------------------------------------------------------------------
(* Helpers *)

RECURSIVE Pow2(_)
Pow2(n) == IF n = 0 THEN 1 ELSE 2 * Pow2(n - 1)

Range(s) == {s[k] : k \in DOMAIN s}

RECURSIVE SeqToBag(_)
SeqToBag(s) == IF s = <<>> THEN EmptyBag
               ELSE SetToBag({Head(s)}) (+) SeqToBag(Tail(s))

----------------------------------------------------------------------------
(* Response headers: e.headers of a ClientResponseError (raise_for_status  *)
(* always passes the response's headers) and its 'Retry-After' entry;      *)
(* header values are strings of characters.  HdrNone: no response at all.  *)

HdrNone == [headers |-> FALSE, present |-> FALSE, value |-> <<>>]

HdrAbsent == [headers |-> TRUE, present |-> FALSE, value |-> <<>>]

HdrVal(v) == [headers |-> TRUE, present |-> TRUE, value |-> v]

NoSave == [returned |-> FALSE, docID |-> "", outcome |-> "", rmOk |-> TRUE,
           tempExists |-> FALSE]

----------------------------------------------------------------------------
(* fetch_data_with_retry / get_documents_by_date                           *)

\* what one GET documents.json can bring: a 2xx JSON body with or without the
\* 'results' key, a transport error, or a non-2xx status (raise_for_status)
IndexOutcomes == {[kind |-> "ok", hdr |-> HdrAbsent], [kind |-> "nokey", hdr |-> HdrAbsent],
                  [kind |-> "neterr", hdr |-> HdrNone],
                  [kind |-> "http429", hdr |-> HdrVal(<<"3", "0">>)]}

NoOutcome == [kind |-> "none", hdr |-> HdrNone]

NoWait == [attempt |-> 0, amount |-> 0, hinted |-> FALSE]

\* retry_wait = config.retry_delay * (2 ** attempt) * (0.1 + random.random())
IndexBackoff(attempt, r) == RetryDelay * Pow2(attempt) * (IndexJitterFloor + r)

\* the value fetch_data_with_retry returns for a 2xx body
IndexResults(date, o) == IF o.kind = "ok" THEN remote[date] ELSE <<>>

\* attempt, st, wait and ret are the coroutine's state; calls, nWaits, nFail and
\* last record what it has done so far
NewIdxTask(date) == [date |-> date, attempt |-> 0, st |-> "ready", ret |-> <<>>,
                     wait |-> NoWait, calls |-> 0, nWaits |-> 0, nFail |-> 0,
                     last |-> NoOutcome]

\* one iteration of the for loop up to its await asyncio.sleep or its return
FetchAttempt(i) ==
    /\ pc = "as_completed"
    /\ i \in DOMAIN idxTasks
    /\ idxTasks[i].st = "ready"
    /\ \E o \in IndexOutcomes, r \in Jitter :
         LET t == idxTasks[i]
             t1 == [t EXCEPT !.calls = @ + 1, !.last = o,
                             !.nFail = IF o.kind \in {"ok", "nokey"} THEN @ ELSE @ + 1]
         IN IF o.kind \in {"ok", "nokey"}
            THEN /\ idxTasks' = [idxTasks EXCEPT ![i] =
                        [t1 EXCEPT !.st = "done", !.ret = IndexResults(t.date, o)]]
                 /\ doneQ' = Append(doneQ, i)
            ELSE IF t.attempt < cfg.max_retries
            THEN /\ idxTasks' = [idxTasks EXCEPT ![i] =
                        [t1 EXCEPT !.st = "sleeping", !.nWaits = @ + 1,
                                   !.wait = [attempt |-> t.attempt, hinted |-> FALSE,
                                             amount |-> IndexBackoff(t.attempt, r)]]]
                 /\ doneQ' = doneQ
            ELSE /\ idxTasks' = [idxTasks EXCEPT ![i] = [t1 EXCEPT !.st = "done", !.ret = <<>>]]
                 /\ doneQ' = Append(doneQ, i)
    /\ nAcquire' = nAcquire + 1
    /\ nIndexReq' = nIndexReq + 1
    /\ UNCHANGED tvars
    /\ UNCHANGED <<cfg, remote, pc, exc, documents, filtered_docs, dlTasks, downloaded_files,
                   tempDirs, outFiles, lastSave, company_info, nContentReq>>

\* await asyncio.sleep(retry_wait) returns and the loop takes its next iteration
FetchWake(i) ==
    /\ pc = "as_completed"
    /\ i \in DOMAIN idxTasks
    /\ idxTasks[i].st = "sleeping"
    /\ idxTasks' = [idxTasks EXCEPT ![i].st = "ready", ![i].attempt = @ + 1,
                                    ![i].wait = NoWait]
    /\ UNCHANGED tvars
    /\ UNCHANGED <<cfg, remote, pc, exc, doneQ, documents, filtered_docs, dlTasks,
                   downloaded_files, tempDirs, outFiles, lastSave, company_info, nAcquire,
                   nIndexReq, nContentReq>>

----------------------------------------------------------------------------
(* get_documents_by_date_range                                             *)

\* the list `dates` built by the while loop
DateList(start, end) == [k \in 1..(end - start + 1) |-> start + k - 1]

\* RangeStart without the start > end check
RangeStartUnchecked ==
    /\ pc = "get_documents_by_date_range"
    /\ idxTasks' = [k \in 1..(cfg.end - cfg.start + 1) |->
                       NewIdxTask(DateList(cfg.start, cfg.end)[k])]
    /\ pc' = "as_completed"
    /\ UNCHANGED tvars
    /\ UNCHANGED <<cfg, remote, exc, doneQ, documents, filtered_docs, dlTasks, downloaded_files,
                   tempDirs, outFiles, lastSave, company_info, nAcquire, nIndexReq,
                   nContentReq>>

RangeStart ==
    /\ pc = "get_documents_by_date_range"
    /\ IF cfg.start > cfg.end
       THEN /\ pc' = "raised"
            /\ exc' = "ValueError: start_date must be <= end_date"
            /\ UNCHANGED idxTasks
       ELSE /\ idxTasks' = [k \in 1..(cfg.end - cfg.start + 1) |->
                               NewIdxTask(DateList(cfg.start, cfg.end)[k])]
            /\ pc' = "as_completed"
            /\ UNCHANGED exc
    /\ UNCHANGED tvars
    /\ UNCHANGED <<cfg, remote, doneQ, documents, filtered_docs, dlTasks, downloaded_files,
                   tempDirs, outFiles, lastSave, company_info, nAcquire, nIndexReq,
                   nContentReq>>

\* RangeCollect with documents = res in place of documents.extend(res)
RangeCollectAssign ==
    /\ pc = "as_completed"
    /\ doneQ # <<>>
    /\ documents' = idxTasks[Head(doneQ)].ret
    /\ idxTasks' = [idxTasks EXCEPT ![Head(doneQ)].st = "collected"]
    /\ doneQ' = Tail(doneQ)
    /\ UNCHANGED tvars
    /\ UNCHANGED <<cfg, remote, pc, exc, filtered_docs, dlTasks, downloaded_files,
                   tempDirs, outFiles, lastSave, company_info, nAcquire, nIndexReq,
                   nContentReq>>

\* res = await task; documents.extend(res)
RangeCollect ==
    /\ pc = "as_completed"
    /\ doneQ # <<>>
    /\ documents' = documents \o idxTasks[Head(doneQ)].ret
    /\ idxTasks' = [idxTasks EXCEPT ![Head(doneQ)].st = "collected"]
    /\ doneQ' = Tail(doneQ)
    /\ UNCHANGED tvars
    /\ UNCHANGED <<cfg, remote, pc, exc, filtered_docs, dlTasks, downloaded_files,
                   tempDirs, outFiles, lastSave, company_info, nAcquire, nIndexReq,
                   nContentReq>>

\* every task has been awaited: return documents
RangeReturn ==
    /\ pc = "as_completed"
    /\ \A i \in DOMAIN idxTasks : idxTasks[i].st = "collected"
    /\ pc' = "range_returned"
    /\ UNCHANGED tvars
    /\ UNCHANGED <<cfg, remote, exc, idxTasks, doneQ, documents, filtered_docs, dlTasks,
                   downloaded_files, tempDirs, outFiles, lastSave, company_info, nAcquire,
                   nIndexReq, nContentReq>>

----------------------------------------------------------------------------
(* src/utils/helper.py                                                     *)

Digits == {"0", "1", "2", "3", "4", "5", "6", "7", "8", "9"}

DigitVal(c) == CASE c = "0" -> 0 [] c = "1" -> 1 [] c = "2" -> 2 [] c = "3" -> 3
                 [] c = "4" -> 4 [] c = "5" -> 5 [] c = "6" -> 6 [] c = "7" -> 7
                 [] c = "8" -> 8 [] OTHER -> 9

\* int(s) succeeds on a non-empty string of decimal digits
IsIntLiteral(s) == Len(s) > 0 /\ \A k \in 1..Len(s) : s[k] \in Digits

RECURSIVE IntOf(_)
IntOf(s) == IF s = <<>> THEN 0
            ELSE 10 * IntOf(SubSeq(s, 1, Len(s) - 1)) + DigitVal(s[Len(s)])

\* s.split()[0] for a string that does not start with a blank
RECURSIVE FirstWord(_)
FirstWord(s) == IF s = <<>> \/ Head(s) = " " THEN <<>>
                ELSE <<Head(s)>> \o FirstWord(Tail(s))

\* s.replace('-', '')
RECURSIVE DropDashes(_)
DropDashes(s) == IF s = <<>> THEN <<>>
                 ELSE IF Head(s) = "-" THEN DropDashes(Tail(s))
                 ELSE <<Head(s)>> \o DropDashes(Tail(s))

\* cleanup_temp_dir(doc_id): the temp dirs left; rmOk says whether shutil.rmtree works
cleanup_temp_dir(dirs, doc_id, rmOk) ==
    IF doc_id \notin dirs THEN dirs
    ELSE IF rmOk THEN dirs \ {doc_id}
    ELSE dirs

\* final_filename = f"{edinetCode}_{date_str}_{docTypeCode}{extension}"
FinalPath(doc_info, extension) ==
    [code |-> doc_info.edinetCode,
     date |-> DropDashes(FirstWord(doc_info.submitDateTime)),
     type |-> doc_info.docTypeCode,
     ext  |-> extension]

Extension(file_type) == IF file_type = "csv" THEN ".csv" ELSE ".xbrl"

\* An archive is a zip with files of some extensions, or not a zip at all
Archives == {[valid |-> FALSE, exts |-> {}],
             [valid |-> TRUE, exts |-> {".xbrl"}],
             [valid |-> TRUE, exts |-> {".csv"}]}

\* save_and_extract_document(content, doc_info, file_type) on the file system
\* (dirs, files): what it returns (ret: <<>> for None, else <<path>>), what it
\* leaves, and whether it raised instead of returning.  fs tells which file
\* system calls work: mkdir, copy2, rmtree.
save_and_extract_document(dirs, files, content, doc_info, file_type, fs) ==
    LET id == doc_info.docID
        made == dirs \cup {id}
        extension == Extension(file_type)
    IN IF ~fs.mkdirOk
       THEN [raised |-> TRUE, outcome |-> "mkdir", ret |-> <<>>, dirs |-> dirs, files |-> files]
       ELSE IF ~content.valid
       THEN [raised |-> FALSE, outcome |-> "badzip", ret |-> <<>>,
             dirs |-> cleanup_temp_dir(made, id, fs.rmOk), files |-> files]
       ELSE IF extension \notin content.exts
       THEN [raised |-> FALSE, outcome |-> "notarget", ret |-> <<>>,
             dirs |-> made, files |-> files]
       ELSE IF ~fs.copyOk
       THEN [raised |-> FALSE, outcome |-> "copyfail", ret |-> <<>>,
             dirs |-> made, files |-> files]
       ELSE [raised |-> FALSE, outcome |-> "saved", ret |-> <<FinalPath(doc_info, extension)>>,
             dirs |-> cleanup_temp_dir(made, id, fs.rmOk),
             files |-> files \cup {FinalPath(doc_info, extension)}]

\* process_document_response(content, doc_info)
process_document_response(dirs, files, content, doc_info, fs) ==
    IF doc_info.csvFlag = "1"
    THEN save_and_extract_document(dirs, files, content, doc_info, "csv", fs)
    ELSE IF doc_info.xbrlFlag = "1"
    THEN save_and_extract_document(dirs, files, content, doc_info, "xbrl", fs)
    ELSE [raised |-> FALSE, outcome |-> "unsupported", ret |-> <<>>,
          dirs |-> dirs, files |-> files]

----------------------------------------------------------------------------
(* get_document_by_id / download_document_with_retry                       *)

\* FileType with the two flags tested in the other order
FileTypeXbrlFirst(doc_info) ==
    IF doc_info.xbrlFlag = "1" THEN "1"
    ELSE IF doc_info.csvFlag = "1" THEN "5"
    ELSE "none"

\* the 'type' parameter get_document_by_id puts in its request, "none" when
\* it returns None without a request
FileType(doc_info) ==
    IF doc_info.csvFlag = "1" THEN "5"
    ELSE IF doc_info.xbrlFlag = "1" THEN "1"
    ELSE "none"

FsAllOk == [mkdirOk |-> TRUE, copyOk |-> TRUE, rmOk |-> TRUE]

FsFaults == {FsAllOk,
             [mkdirOk |-> FALSE, copyOk |-> TRUE, rmOk |-> TRUE],
             [mkdirOk |-> TRUE, copyOk |-> FALSE, rmOk |-> TRUE],
             [mkdirOk |-> TRUE, copyOk |-> TRUE, rmOk |-> FALSE]}

NoArchive == [valid |-> FALSE, exts |-> {}]

\* what one GET documents/{docID} can bring
ContentOutcomes ==
    {[kind |-> "ok", hdr |-> HdrAbsent, archive |-> a, fs |-> f] : a \in Archives, f \in FsFaults}
    \cup {[kind |-> "neterr", hdr |-> HdrNone, archive |-> NoArchive, fs |-> FsAllOk],
          [kind |-> "http500", hdr |-> HdrAbsent, archive |-> NoArchive, fs |-> FsAllOk]}
    \cup {[kind |-> "http429", hdr |-> h, archive |-> NoArchive, fs |-> FsAllOk] :
            h \in {HdrAbsent, HdrVal(<<"0">>), HdrVal(<<"F", "r", "i">>)}}

\* retry_wait = config.retry_delay * (2 ** attempt) * (0.5 + random.random())
ContentBackoff(attempt, r) == RetryDelay * Pow2(attempt) * (ContentJitterFloor + r)

\* retry_after = int(e.headers.get('Retry-After', 10)): "ok" with the seconds,
\* or the exception the expression raises
RetryAfter(hdr) ==
    IF ~hdr.present THEN [raises |-> "none", secs |-> DefaultRetryAfter]
    ELSE IF IsIntLiteral(hdr.value) THEN [raises |-> "none", secs |-> IntOf(hdr.value)]
    ELSE [raises |-> "ValueError", secs |-> 0]

NewDlTask(doc) == [doc |-> doc, attempt |-> 0, st |-> "ready", ret |-> <<>>, exc |-> "none",
                   wait |-> NoWait, calls |-> 0, nWaits |-> 0, nFail |-> 0, nReq |-> 0,
                   reqType |-> "none", last |-> NoOutcome, saved |-> "none"]

\* the except branches shared by every failure that is not a 429: back off and
\* retry while attempt < max_retries, else return None
BackoffOrGiveUp(t, r) ==
    IF t.attempt < cfg.max_retries
    THEN [t EXCEPT !.st = "sleeping", !.nWaits = @ + 1,
                   !.wait = [attempt |-> t.attempt, hinted |-> FALSE,
                             amount |-> ContentBackoff(t.attempt, r)]]
    ELSE [t EXCEPT !.st = "done", !.ret = <<>>]

\* the 429 branch: sleep retry_after seconds whatever the attempt, unless
\* computing retry_after raises
RateLimited(t, o) ==
    LET ra == RetryAfter(o.hdr)
    IN IF ra.raises # "none"
       THEN [t EXCEPT !.st = "raised", !.exc = ra.raises]
       ELSE [t EXCEPT !.st = "sleeping", !.nWaits = @ + 1,
                      !.wait = [attempt |-> t.attempt, hinted |-> TRUE,
                                amount |-> 10 * ra.secs]]

\* one iteration of the for loop of download_document_with_retry, up to its
\* await asyncio.sleep, its return or its raise
DownloadAttempt(i) ==
    /\ pc = "gather"
    /\ i \in DOMAIN dlTasks
    /\ dlTasks[i].st = "ready"
    /\ LET t == dlTasks[i]
           ft == FileType(t.doc)
       IN IF ft = "none"
          THEN /\ dlTasks' = [dlTasks EXCEPT ![i] =
                      [t EXCEPT !.calls = @ + 1, !.st = "done", !.ret = <<>>]]
               /\ UNCHANGED <<tempDirs, outFiles, lastSave, nAcquire, nContentReq>>
          ELSE /\ nAcquire' = nAcquire + 1
               /\ nContentReq' = nContentReq + 1
               /\ \E o \in ContentOutcomes, r \in Jitter :
                    LET sv == process_document_response(tempDirs, outFiles, o.archive,
                                                        t.doc, o.fs)
                        t1 == [t EXCEPT !.calls = @ + 1, !.nReq = @ + 1, !.reqType = ft,
                                        !.last = [kind |-> o.kind, hdr |-> o.hdr],
                                        !.saved = "none",
                                        !.nFail = IF o.kind = "ok" /\ ~sv.raised
                                                  THEN @ ELSE @ + 1]
                    IN IF o.kind = "ok"
                       THEN /\ tempDirs' = sv.dirs
                            /\ outFiles' = sv.files
                            /\ IF sv.raised
                               THEN /\ dlTasks' = [dlTasks EXCEPT ![i] =
                                          BackoffOrGiveUp([t1 EXCEPT !.saved = sv.outcome], r)]
                                    /\ UNCHANGED lastSave
                               ELSE /\ dlTasks' = [dlTasks EXCEPT ![i] =
                                          [t1 EXCEPT !.st = "done", !.ret = sv.ret,
                                                     !.saved = sv.outcome]]
                                    /\ lastSave' = [returned |-> TRUE, docID |-> t.doc.docID,
                                                    outcome |-> sv.outcome, rmOk |-> o.fs.rmOk,
                                                    tempExists |-> t.doc.docID \in sv.dirs]
                       ELSE /\ dlTasks' = [dlTasks EXCEPT ![i] =
                                  IF o.kind = "http429" THEN RateLimited(t1, o)
                                  ELSE BackoffOrGiveUp(t1, r)]
                            /\ UNCHANGED <<tempDirs, outFiles, lastSave>>
    /\ UNCHANGED tvars
    /\ UNCHANGED <<cfg, remote, pc, exc, idxTasks, doneQ, documents, filtered_docs,
                   downloaded_files, company_info, nIndexReq>>

\* await asyncio.sleep(...) returns: the loop takes its next iteration, or has
\* none left and the function returns None by falling off its end
DownloadWake(i) ==
    /\ pc = "gather"
    /\ i \in DOMAIN dlTasks
    /\ dlTasks[i].st = "sleeping"
    /\ dlTasks' = [dlTasks EXCEPT ![i] =
           IF dlTasks[i].attempt < cfg.max_retries
           THEN [@ EXCEPT !.st = "ready", !.attempt = @ + 1, !.wait = NoWait]
           ELSE [@ EXCEPT !.st = "done", !.ret = <<>>, !.wait = NoWait]]
    /\ UNCHANGED tvars
    /\ UNCHANGED <<cfg, remote, pc, exc, idxTasks, doneQ, documents, filtered_docs,
                   downloaded_files, tempDirs, outFiles, lastSave, company_info, nAcquire,
                   nIndexReq, nContentReq>>

----------------------------------------------------------------------------
(* download_documents                                                      *)

Min(a, b) == IF a < b THEN a ELSE b

\* doc_list[:companies_to_get] when companies_to_get is not None
Truncate(doc_list) ==
    IF cfg.hasLimit THEN SubSeq(doc_list, 1, Min(cfg.limit, Len(doc_list))) ELSE doc_list

DownloadStart ==
    /\ pc = "download_documents"
    /\ dlTasks' = [k \in 1..Len(Truncate(filtered_docs)) |-> NewDlTask(Truncate(filtered_docs)[k])]
    /\ pc' = "gather"
    /\ UNCHANGED tvars
    /\ UNCHANGED <<cfg, remote, exc, idxTasks, doneQ, documents, filtered_docs,
                   downloaded_files, tempDirs, outFiles, lastSave, company_info, nAcquire,
                   nIndexReq, nContentReq>>

\* [r for r in results if r is not None], results in the order of doc_list
RECURSIVE NotNone(_)
NotNone(tasks) == IF tasks = <<>> THEN <<>>
                  ELSE Head(tasks).ret \o NotNone(Tail(tasks))

\* asyncio.gather(*tasks) hands the first exception of a task to its awaiter
GatherRaise ==
    /\ pc = "gather"
    /\ \E i \in DOMAIN dlTasks :
         /\ dlTasks[i].st = "raised"
         /\ exc' = dlTasks[i].exc
    /\ pc' = "raised"
    /\ UNCHANGED tvars
    /\ UNCHANGED <<cfg, remote, idxTasks, doneQ, documents, filtered_docs, dlTasks,
                   downloaded_files, tempDirs, outFiles, lastSave, company_info, nAcquire,
                   nIndexReq, nContentReq>>

GatherReturnFirst ==
    /\ pc = "gather"
    /\ \E i \in DOMAIN dlTasks : dlTasks[i].st = "done"
    /\ downloaded_files' = NotNone(dlTasks)
    /\ pc' = "download_returned"
    /\ UNCHANGED tvars
    /\ UNCHANGED <<cfg, remote, exc, idxTasks, doneQ, documents, filtered_docs, dlTasks,
                   tempDirs, outFiles, lastSave, company_info, nAcquire, nIndexReq,
                   nContentReq>>

\* every coroutine has returned: the results without the None ones
GatherReturn ==
    /\ pc = "gather"
    /\ \A i \in DOMAIN dlTasks : dlTasks[i].st = "done"
    /\ downloaded_files' = NotNone(dlTasks)
    /\ pc' = "download_returned"
    /\ UNCHANGED tvars
    /\ UNCHANGED <<cfg, remote, exc, idxTasks, doneQ, documents, filtered_docs, dlTasks,
                   tempDirs, outFiles, lastSave, company_info, nAcquire, nIndexReq,
                   nContentReq>>

----------------------------------------------------------------------------
(* extract_companies / filter_documents / main                             *)

\* rows of the EDINET code list file
CompanyRows ==
    {[code |-> "E1", listed |-> "Listed company", consolidated |-> "Consolidated",
      name |-> "Alpha", industry |-> "Foods"],
     [code |-> "E2", listed |-> "Listed company", consolidated |-> "Consolidated",
      name |-> "Beta", industry |-> "Banks"],
     [code |-> "E3", listed |-> "Unlisted company", consolidated |-> "Consolidated",
      name |-> "Gamma", industry |-> "Mining"],
     [code |-> "E4", listed |-> "Listed company", consolidated |-> "NonConsolidated",
      name |-> "Delta", industry |-> "Foods"],
     [code |-> "E5", listed |-> "Listed company", consolidated |-> "Consolidated",
      name |-> NoneVal, industry |-> "Banks"]}

target_doc_types == {"120", "130"}

\* the file as a later download of the code list has it: E1 no longer listed,
\* E3 listed
CompanyRowsLater ==
    {IF row.code = "E1" THEN [row EXCEPT !.listed = "Unlisted company"]
     ELSE IF row.code = "E3" THEN [row EXCEPT !.listed = "Listed company"]
     ELSE row : row \in CompanyRows}

\* what a read of config.csv_file can find once the run has started
CsvFiles == {CompanyRows, CompanyRowsLater}

\* extract_companies() on the rows pd.read_csv(csv_file) returns
extract_companies(csv_file) ==
    {row \in csv_file : /\ row.listed = "Listed company"
                        /\ row.consolidated = "Consolidated"
                        /\ row.name # NoneVal}

\* filter_documents(documents, doc_types); it calls extract_companies() itself,
\* which reads csv_file again
filter_documents(docs, doc_types, csv_file) ==
    LET edinet_codes == {row.code : row \in extract_companies(csv_file)}
    IN SelectSeq(docs, LAMBDA doc : doc.edinetCode \in edinet_codes
                                    /\ doc.docTypeCode \in doc_types)

\* main, step 1
MainExtractCompanies ==
    /\ pc = "main"
    /\ company_info' = extract_companies(CompanyRows)
    /\ pc' = "get_documents_by_date_range"
    /\ UNCHANGED tvars
    /\ UNCHANGED <<cfg, remote, exc, idxTasks, doneQ, documents, filtered_docs, dlTasks,
                   downloaded_files, tempDirs, outFiles, lastSave, nAcquire, nIndexReq,
                   nContentReq>>

\* main, step 3, with the second read of the file; the tasks of step 2 are
\* gone with its frame
MainFilter ==
    /\ pc = "range_returned"
    /\ \E csv_file \in CsvFiles :
         filtered_docs' = filter_documents(documents, target_doc_types, csv_file)
    /\ idxTasks' = <<>>
    /\ pc' = "download_documents"
    /\ UNCHANGED tvars
    /\ UNCHANGED <<cfg, remote, exc, doneQ, documents, dlTasks, downloaded_files, tempDirs,
                   outFiles, lastSave, company_info, nAcquire, nIndexReq, nContentReq>>

----------------------------------------------------------------------------
(* src/transform.py: select_best_files_by_company.  A path is a string of  *)
(* characters; the pattern E(\d+)_\d+_(\d+)\.(csv|xbrl) is searched in its  *)
(* basename.                                                               *)

\* os.path.basename(file_path): what follows the last '/'
RECURSIVE basename(_)
basename(p) == IF \E k \in DOMAIN p : p[k] = "/" THEN basename(Tail(p)) ELSE p

\* the index after the longest run of digits of s that starts at k
RECURSIVE DigitsEnd(_, _)
DigitsEnd(s, k) == IF k <= Len(s) /\ s[k] \in Digits THEN DigitsEnd(s, k + 1) ELSE k

\* s[k:].startswith(w)
HasAt(s, k, w) == k >= 1 /\ k + Len(w) - 1 <= Len(s) /\ SubSeq(s, k, k + Len(w) - 1) = w

NoMatch == [ok |-> FALSE, group1 |-> <<>>, group2 |-> <<>>]

\* the pattern matched at position k of s.  Each \d+ is followed by a
\* character that is no digit, so the longest run is the only way to match.
MatchAt(s, k) ==
    LET a == DigitsEnd(s, k + 1)
        b == DigitsEnd(s, a + 1)
        c == DigitsEnd(s, b + 1)
    IN  IF /\ HasAt(s, k, <<"E">>) /\ a > k + 1
           /\ HasAt(s, a, <<"_">>) /\ b > a + 1
           /\ HasAt(s, b, <<"_">>) /\ c > b + 1
           /\ HasAt(s, c, <<".">>)
           /\ \/ HasAt(s, c + 1, <<"c", "s", "v">>)
              \/ HasAt(s, c + 1, <<"x", "b", "r", "l">>)
        THEN [ok |-> TRUE, group1 |-> SubSeq(s, k + 1, a - 1),
              group2 |-> SubSeq(s, b + 1, c - 1)]
        ELSE NoMatch

\* pattern.search(filename): the leftmost match, if any
pattern_search(filename) ==
    LET hits == {k \in 1..Len(filename) : MatchAt(filename, k).ok}
    IN  IF hits = {} THEN NoMatch
        ELSE MatchAt(filename, CHOOSE k \in hits : \A j \in hits : k <= j)

\* A dict is the sequence of its items in insertion order
HasKey(d, key) == \E k \in DOMAIN d : d[k].key = key

\* d[key] = value: a new key goes last, a known key keeps its place
DictSet(d, key, value) ==
    IF HasKey(d, key)
    THEN [k \in DOMAIN d |-> IF d[k].key = key THEN [key |-> key, value |-> value]
                                                ELSE d[k]]
    ELSE Append(d, [key |-> key, value |-> value])

DictValuesReversed(d) == [k \in DOMAIN d |-> d[Len(d) + 1 - k].value]

\* list(d.values())
DictValues(d) == [k \in DOMAIN d |-> d[k].value]

SelectBodyFirstWins(company_files, file_path) ==
    LET match == pattern_search(basename(file_path))
        company_code == <<"E">> \o match.group1
    IN  IF match.ok /\ ~HasKey(company_files, company_code)
        THEN DictSet(company_files, company_code, file_path)
        ELSE company_files

SelectBodyLastWins(company_files, file_path) ==
    LET match == pattern_search(basename(file_path))
        company_code == <<"E">> \o match.group1
    IN  IF match.ok
        THEN DictSet(company_files, company_code, file_path)
        ELSE company_files

SelectBodyUnmatched(company_files, file_path) ==
    LET match == pattern_search(basename(file_path))
        company_code == <<"E">> \o match.group1
        doc_type == match.group2
    IN  IF ~HasKey(company_files, company_code) \/ doc_type = <<"1", "3", "0">>
        THEN DictSet(company_files, company_code, file_path)
        ELSE company_files

\* one turn of the loop over file_paths
SelectBody(company_files, file_path) ==
    LET match == pattern_search(basename(file_path))
        company_code == <<"E">> \o match.group1
        doc_type == match.group2
    IN  IF match.ok /\ (~HasKey(company_files, company_code) \/ doc_type = <<"1", "3", "0">>)
        THEN DictSet(company_files, company_code, file_path)
        ELSE company_files

RECURSIVE SelectLoop(_, _)
SelectLoop(company_files, file_paths) ==
    IF file_paths = <<>> THEN company_files
    ELSE SelectLoop(SelectBody(company_files, Head(file_paths)), Tail(file_paths))

\* the function as a whole
select_best_files_by_company(file_paths) == DictValues(SelectLoop(<<>>, file_paths))

\* Paths the function is called on
A120 == <<"E", "1", "_", "1", "_", "1", "2", "0", ".", "c", "s", "v">>

A130a == <<"E", "1", "_", "1", "_", "1", "3", "0", ".", "c", "s", "v">>

A130b == <<"t", "/", "E", "1", "_", "2", "_", "1", "3", "0", ".", "x", "b", "r", "l">>

A140 == <<"E", "1", "_", "3", "_", "1", "4", "0", ".", "c", "s", "v">>

B120 == <<"E", "2", "_", "1", "_", "1", "2", "0", ".", "x", "b", "r", "l">>

\* no match: the date part is not made of digits
Unmatched == <<"E", "2", "_", "x", "_", "1", "3", "0", ".", "c", "s", "v">>

\* a match inside a longer name, of type 1300
Inner == <<"z", "E", "3", "_", "1", "_", "1", "3", "0", "0", ".", "c", "s", "v", "x">>

SelectPaths == {A120, A130a, A130b, A140, B120, Unmatched, Inner}

RECURSIVE PathLists(_)
PathLists(n) == IF n = 0 THEN {<<>>}
                ELSE PathLists(n - 1) \cup
                     {Append(l, p) : l \in {m \in PathLists(n - 1) : Len(m) = n - 1},
                                     p \in SelectPaths}

NoSel == [pc |-> "idle", round |-> 0, input |-> <<>>, first |-> <<>>, file_paths |-> <<>>,
          i |-> 0, company_files |-> <<>>, selected_files |-> <<>>]

\* for file_path in file_paths: one turn
SelectStep ==
    /\ sel.pc = "loop"
    /\ sel.i <= Len(sel.file_paths)
    /\ sel' = [sel EXCEPT !.company_files = SelectBody(@, sel.file_paths[sel.i]),
                          !.i = @ + 1]
    /\ UNCHANGED <<pc, exc, parse, xf, df_result, ld, log>>
    /\ UNCHANGED evars

\* selected_files = list(company_files.values()); return selected_files
SelectReturn ==
    /\ sel.pc = "loop"
    /\ sel.i > Len(sel.file_paths)
    /\ sel' = [sel EXCEPT !.pc = "returned",
                          !.selected_files = DictValues(sel.company_files)]
    /\ UNCHANGED <<pc, exc, parse, xf, df_result, ld, log>>
    /\ UNCHANGED evars

\* the function called on what it returned
SelectAgain ==
    /\ sel.pc = "returned"
    /\ sel.round = 1
    /\ sel' = [sel EXCEPT !.pc = "loop", !.round = 2, !.first = sel.selected_files,
                          !.file_paths = sel.selected_files, !.i = 1,
                          !.company_files = <<>>, !.selected_files = <<>>]
    /\ UNCHANGED <<pc, exc, parse, xf, df_result, ld, log>>
    /\ UNCHANGED evars

----------------------------------------------------------------------------
(* src/transform.py: parse_csv_file and parse_xbrl_file.  A tabular        *)
(* payload is the sequence of its data rows, each with the index label     *)
(* pandas gives it; a tagged payload is the sequence root.iter() yields.   *)
(* Cell and element texts that the code converts are strings of            *)
(* characters; a tag is the sequence of its parts.  An optional value is   *)
(* <<>> when absent and <<v>> when present.                                *)

GoodDate == <<"2", "0", "2", "4", "-", "0", "3", "-", "3", "1">>

BadDate == <<"a", "b", "c">>

\* pd.to_datetime(s) on a string: YYYY-MM-DD is a date, other strings raise
to_datetime(s) ==
    IF /\ Len(s) = 10
       /\ \A k \in {1, 2, 3, 4, 6, 7, 9, 10} : s[k] \in Digits
       /\ s[5] = "-" /\ s[8] = "-"
       /\ IntOf(SubSeq(s, 6, 7)) \in 1..12
       /\ IntOf(SubSeq(s, 9, 10)) \in 1..31
    THEN [ok |-> TRUE, year |-> IntOf(SubSeq(s, 1, 4))]
    ELSE [ok |-> FALSE, year |-> 0]

SentinelId == "jpdei_cor:CurrentFiscalYearEndDateDEI"

\* s[a:b] of a sequence, with Python's clipping (a, b counted from 0)
Slice(s, a, b) == IF a >= Min(b, Len(s)) THEN <<>> ELSE SubSeq(s, a + 1, Min(b, Len(s)))

NoParse == [pc |-> "idle", payload |-> <<>>, raised |-> FALSE, exc |-> "none",
            revenue_data |-> <<>>, fiscal_year |-> <<>>]

ParseRaise(e) == [raised |-> TRUE, exc |-> e, revenue_data |-> <<>>, fiscal_year |-> <<>>]

\* parse_csv_file with revenue_data = df_revenue[0:5]
parse_csv_file_unskipped(df) ==
    IF Len(df) < 2 THEN ParseRaise("KeyError")
    ELSE LET revenue_mask == df[2].id
             IsRevenue(row) == row.id = revenue_mask
             df_revenue == SelectSeq(df, IsRevenue)
             revenue_data == Slice(df_revenue, 0, 5)
             IsYear(row) == row.id = SentinelId
             year_rows == SelectSeq(df, IsYear)
         IN  IF year_rows = <<>> THEN ParseRaise("IndexError")
             ELSE IF ~to_datetime(year_rows[1].val).ok THEN ParseRaise("DateParseError")
             ELSE [raised |-> FALSE, exc |-> "none", revenue_data |-> revenue_data,
                   fiscal_year |-> <<to_datetime(year_rows[1].val).year>>]

\* parse_csv_file on the table read from the file
parse_csv_file(df) ==
    IF Len(df) < 2 THEN ParseRaise("KeyError")
    ELSE LET revenue_mask == df[2].id
             IsRevenue(row) == row.id = revenue_mask
             df_revenue == SelectSeq(df, IsRevenue)
             revenue_data == Slice(df_revenue, 1, 6)
             IsYear(row) == row.id = SentinelId
             year_rows == SelectSeq(df, IsYear)
         IN  IF year_rows = <<>> THEN ParseRaise("IndexError")
             ELSE IF ~to_datetime(year_rows[1].val).ok THEN ParseRaise("DateParseError")
             ELSE [raised |-> FALSE, exc |-> "none", revenue_data |-> revenue_data,
                   fiscal_year |-> <<to_datetime(year_rows[1].val).year>>]

\* tag.endswith(part) and part in tag
EndsWith(tag, part) == tag # <<>> /\ tag[Len(tag)] = part

Contains(tag, part) == \E k \in DOMAIN tag : tag[k] = part

\* the first index of s whose element satisfies Test, 0 when there is none
FirstIndex(s, Test(_)) ==
    LET hits == {k \in DOMAIN s : Test(s[k])}
    IN  IF hits = {} THEN 0 ELSE CHOOSE k \in hits : \A j \in hits : k <= j

\* parse_xbrl_file as it would be if the marker loop kept the last marker
parse_xbrl_file_last_marker(elements) ==
    LET IsAnchor(elem) == /\ EndsWith(elem.tag, "CurrentPeriodEndDateDEI")
                          /\ elem.text # <<>>
                          /\ to_datetime(elem.text).ok
        a == FirstIndex(elements, IsAnchor)
        hits == {k \in DOMAIN elements : Contains(elements[k].tag, "NumberOfSubmissionDEI")}
        i == IF hits = {} THEN 0 ELSE CHOOSE k \in hits : \A j \in hits : j <= k
        next == IF i = 0 THEN <<>> ELSE Slice(elements, i, i + 5)
        IsFact(elem) == elem.contextRef # <<>> /\ elem.text # <<>>
        facts == SelectSeq(next, IsFact)
        records == [k \in DOMAIN facts |->
                      [ctx |-> facts[k].contextRef[1], val |-> facts[k].text,
                       unit |-> IF facts[k].unitRef = <<>> THEN "JPY"
                                ELSE facts[k].unitRef[1]]]
    IN  IF a = 0 THEN ParseRaise("UnboundLocalError")
        ELSE [raised |-> FALSE, exc |-> "none", revenue_data |-> records,
              fiscal_year |-> <<to_datetime(elements[a].text).year>>]

\* parse_xbrl_file on the elements of the tree; fiscal_year is assigned only
\* when an anchor element parses, and the return statement reads it
parse_xbrl_file(elements) ==
    LET IsAnchor(elem) == /\ EndsWith(elem.tag, "CurrentPeriodEndDateDEI")
                          /\ elem.text # <<>>
                          /\ to_datetime(elem.text).ok
        a == FirstIndex(elements, IsAnchor)
        IsMarker(elem) == Contains(elem.tag, "NumberOfSubmissionDEI")
        i == FirstIndex(elements, IsMarker)
        next == IF i = 0 THEN <<>> ELSE Slice(elements, i, i + 5)
        IsFact(elem) == elem.contextRef # <<>> /\ elem.text # <<>>
        facts == SelectSeq(next, IsFact)
        records == [k \in DOMAIN facts |->
                      [ctx |-> facts[k].contextRef[1], val |-> facts[k].text,
                       unit |-> IF facts[k].unitRef = <<>> THEN "JPY"
                                ELSE facts[k].unitRef[1]]]
    IN  IF a = 0 THEN ParseRaise("UnboundLocalError")
        ELSE [raised |-> FALSE, exc |-> "none", revenue_data |-> records,
              fiscal_year |-> <<to_datetime(elements[a].text).year>>]

\* Rows of the tables parse_csv_file is called on
RowKinds ==
    {[id |-> "X", ctx |-> "CurrentYearDuration", val |-> <<"1", "0", "0">>, unit |-> "JPY"],
     [id |-> "Y", ctx |-> "FilingDateInstant", val |-> <<"7">>, unit |-> "JPY"],
     [id |-> SentinelId, ctx |-> "FilingDateInstant", val |-> GoodDate, unit |-> "none"]}

\* the table with these rows, each under its index label
Table(rows) == [k \in DOMAIN rows |->
                  [idx |-> k - 1, id |-> rows[k].id, ctx |-> rows[k].ctx,
                   val |-> rows[k].val, unit |-> rows[k].unit]]

Tables == UNION {{Table(rows) : rows \in [1..n -> RowKinds]} : n \in 0..MaxRows}

\* parse_csv_file(file_path): the call as a whole
ParseCsv ==
    /\ parse.pc = "parse_csv_file"
    /\ LET r == parse_csv_file(parse.payload)
       IN  parse' = [parse EXCEPT !.pc = IF r.raised THEN "raised" ELSE "returned",
                                  !.raised = r.raised, !.exc = r.exc,
                                  !.revenue_data = r.revenue_data,
                                  !.fiscal_year = r.fiscal_year]
    /\ UNCHANGED <<pc, exc, sel, xf, df_result, ld, log>>
    /\ UNCHANGED evars

\* the period-end element and the marker element
Anchor(date) == [tag |-> <<"{dei}", "CurrentPeriodEndDateDEI">>, text |-> date,
                 contextRef |-> <<"FilingDateInstant">>, unitRef |-> <<>>]

Marker == [tag |-> <<"{dei}", "NumberOfSubmissionDEI">>, text |-> <<"1">>,
           contextRef |-> <<"FilingDateInstant">>, unitRef |-> <<>>]

\* Elements of the trees parse_xbrl_file is called on: a marker, a fact with
\* a unit, an element without a context reference, one without text
Fact == [tag |-> <<"{jpcrp}", "NetSales">>, text |-> <<"5", "0">>,
         contextRef |-> <<"CurrentYearDuration">>, unitRef |-> <<"USD">>]

NoContext == [tag |-> <<"{jpcrp}", "NetSales">>, text |-> <<"4", "0">>,
              contextRef |-> <<>>, unitRef |-> <<"USD">>]

NoText == [tag |-> <<"{jpcrp}", "NetSales">>, text |-> <<>>,
           contextRef |-> <<"Prior1YearDuration">>, unitRef |-> <<>>]

ElementLists(n) ==
    UNION {[1..k -> {"marker", "fact", "bare"}] : k \in 0..n}

\* the tree of a body of kinds, its bare elements all lacking the same part,
\* with the period-end element before it, after it, or nowhere
Tree(kinds, bare, anchor) ==
    LET body == [k \in DOMAIN kinds |->
                   CASE kinds[k] = "marker" -> Marker
                     [] kinds[k] = "fact" -> Fact
                     [] OTHER -> IF bare = "contextRef" THEN NoContext ELSE NoText]
    IN  CASE anchor = "first" -> <<Anchor(GoodDate)>> \o body
          [] anchor = "last" -> body \o <<Anchor(GoodDate)>>
          [] OTHER -> body

Trees ==
    {Tree(kinds, bare, anchor) : kinds \in ElementLists(MaxElems),
                                 bare \in {"contextRef", "text"},
                                 anchor \in {"first", "last", "none"}}

\* one call of parse_xbrl_file on parse.payload
ParseXbrl ==
    /\ parse.pc = "parse_xbrl_file"
    /\ LET r == parse_xbrl_file(parse.payload)
       IN  parse' = [parse EXCEPT !.pc = IF r.raised THEN "raised" ELSE "returned",
                                  !.raised = r.raised, !.exc = r.exc,
                                  !.revenue_data = r.revenue_data,
                                  !.fiscal_year = r.fiscal_year]
    /\ UNCHANGED <<pc, exc, sel, xf, df_result, ld, log>>
    /\ UNCHANGED evars

----------------------------------------------------------------------------
(* src/transform.py: transform_financial_data and                          *)
(* process_financial_documents                                             *)

\* the characters of the strings the model keeps whole elsewhere
Spell(name) ==
    CASE name = "E1" -> <<"E", "1">>
      [] name = "E2" -> <<"E", "2">>
      [] name = "E3" -> <<"E", "3">>
      [] name = "E4" -> <<"E", "4">>
      [] name = "E5" -> <<"E", "5">>
      [] name = "120" -> <<"1", "2", "0">>
      [] name = "130" -> <<"1", "3", "0">>
      [] name = "140" -> <<"1", "4", "0">>
      [] name = ".csv" -> <<".", "c", "s", "v">>
      [] OTHER -> <<".", "x", "b", "r", "l">>

\* s.strip() for blanks
RECURSIVE LStrip(_)
LStrip(s) == IF s # <<>> /\ Head(s) = " " THEN LStrip(Tail(s)) ELSE s

RECURSIVE RStrip(_)
RStrip(s) == IF s # <<>> /\ s[Len(s)] = " " THEN RStrip(SubSeq(s, 1, Len(s) - 1)) ELSE s

\* int(s) on a string: blanks around, an optional sign, decimal digits;
\* every other string raises ValueError
Unsigned(s) ==
    LET t == RStrip(LStrip(s))
    IN  IF t # <<>> /\ t[1] \in {"+", "-"} THEN Tail(t) ELSE t

PyIntOk(s) == IsIntLiteral(Unsigned(s))

PyInt(s) ==
    LET t == RStrip(LStrip(s))
    IN  IF t[1] = "-" THEN 0 - IntOf(Unsigned(s)) ELSE IntOf(Unsigned(s))

year_mapping_forward ==
    [label \in {"CurrentYearDuration", "Prior1YearDuration", "Prior2YearDuration",
                "Prior3YearDuration", "Prior4YearDuration"} |->
        CASE label = "CurrentYearDuration" -> 0
          [] label = "Prior1YearDuration" -> 1
          [] label = "Prior2YearDuration" -> 2
          [] label = "Prior3YearDuration" -> 3
          [] OTHER -> 4]

year_mapping ==
    [label \in {"CurrentYearDuration", "Prior1YearDuration", "Prior2YearDuration",
                "Prior3YearDuration", "Prior4YearDuration"} |->
        CASE label = "CurrentYearDuration" -> 0
          [] label = "Prior1YearDuration" -> -1
          [] label = "Prior2YearDuration" -> -2
          [] label = "Prior3YearDuration" -> -3
          [] OTHER -> -4]

\* filename.split('_')[0]
RECURSIVE SplitHead(_)
SplitHead(s) == IF s = <<>> \/ Head(s) = "_" THEN <<>>
                ELSE <<Head(s)>> \o SplitHead(Tail(s))

\* file_path.endswith(suffix)
PathEndsWith(file_path, suffix) ==
    /\ Len(file_path) >= Len(suffix)
    /\ SubSeq(file_path, Len(file_path) - Len(suffix) + 1, Len(file_path)) = suffix

\* the loop over revenue_data.iterrows()
RECURSIVE TransformRows(_, _, _)
TransformRows(rows, fiscal_year, company_data) ==
    IF rows = <<>> THEN <<>>
    ELSE LET row == Head(rows)
             rest == TransformRows(Tail(rows), fiscal_year, company_data)
         IN  IF row.ctx \notin DOMAIN year_mapping THEN rest
             ELSE IF ~PyIntOk(row.val) THEN rest
             ELSE <<[year |-> fiscal_year + year_mapping[row.ctx],
                     companyname |-> company_data.name,
                     industryclassification |-> company_data.industry,
                     geonameen |-> "Japan",
                     revenue |-> PyInt(row.val),
                     revenue_unit |-> row.unit]>> \o rest

\* transform_financial_data(file_path, company_info), payload being what the
\* file holds: the records returned, or the exception that leaves the call
transform_financial_data(file_path, companies, payload) ==
    LET filename == basename(file_path)
        edinet_code == SplitHead(filename)
        known == {row \in companies : Spell(row.code) = edinet_code}
        company_data == CHOOSE row \in known : TRUE
        parsed == IF PathEndsWith(file_path, Spell(".csv")) THEN parse_csv_file(payload)
                  ELSE parse_xbrl_file(payload)
    IN  IF known = {} THEN [raised |-> FALSE, exc |-> "none", df |-> <<>>]
        ELSE IF ~PathEndsWith(file_path, Spell(".csv"))
                /\ ~PathEndsWith(file_path, Spell(".xbrl"))
        THEN [raised |-> FALSE, exc |-> "none", df |-> <<>>]
        ELSE IF parsed.raised THEN [raised |-> TRUE, exc |-> parsed.exc, df |-> <<>>]
        ELSE [raised |-> FALSE, exc |-> "none",
              df |-> TransformRows(parsed.revenue_data, parsed.fiscal_year[1], company_data)]

\* pd.concat(dfs, ignore_index=True)
RECURSIVE Concat(_)
Concat(dfs) == IF dfs = <<>> THEN <<>> ELSE Head(dfs) \o Concat(Tail(dfs))

\* Facts of the payloads: five periods, the value of the fourth negative
Five ==
    <<[ctx |-> "CurrentYearDuration", val |-> <<"5", "0">>],
      [ctx |-> "Prior1YearDuration", val |-> <<"4", "0">>],
      [ctx |-> "Prior2YearDuration", val |-> <<"3", "0">>],
      [ctx |-> "Prior3YearDuration", val |-> <<"-", "2", "0">>],
      [ctx |-> "Prior4YearDuration", val |-> <<" ", "1", "0">>]>>

\* the five facts with the k-th one given an unknown indicator or a value
\* that is no integer
FiveWith(k, alt) ==
    [j \in 1..5 |-> IF j # k THEN Five[j]
                    ELSE IF alt = "unknown"
                         THEN [ctx |-> "CurrentYearInstant", val |-> Five[j].val]
                         ELSE [ctx |-> Five[j].ctx, val |-> <<"1", ".", "5">>]]

FactLists == {<<>>, Five} \cup {FiveWith(k, alt) : k \in {2, 5}, alt \in {"unknown", "nonint"}}

\* a table holding the facts after its second row, and the sentinel row last
CsvRows(facts) ==
    <<[id |-> "Y", ctx |-> "FilingDateInstant", val |-> <<"7">>, unit |-> "none"],
      [id |-> "X", ctx |-> "FilingDateInstant", val |-> <<"0">>, unit |-> "none"]>>
    \o [k \in DOMAIN facts |-> [id |-> "X", ctx |-> facts[k].ctx, val |-> facts[k].val,
                                unit |-> "JPY"]]

SentinelRow(date) == [id |-> SentinelId, ctx |-> "FilingDateInstant", val |-> date,
                      unit |-> "none"]

CsvPayloads ==
    {Table(CsvRows(f) \o <<SentinelRow(GoodDate)>>) : f \in FactLists}
    \cup {Table(CsvRows(Five)),
          Table(<<SentinelRow(GoodDate)>>),
          Table(CsvRows(Five) \o <<SentinelRow(BadDate)>>)}

\* the facts as elements, the first one alone with a unitRef
Elements(facts) ==
    [k \in DOMAIN facts |-> [tag |-> <<"{jpcrp}", "NetSales">>, text |-> facts[k].val,
                             contextRef |-> <<facts[k].ctx>>,
                             unitRef |-> IF k = 1 THEN <<"USD">> ELSE <<>>]]

XbrlPayloads ==
    {<<Anchor(GoodDate), Marker>> \o Elements(f) : f \in FactLists}
    \cup {<<Marker>> \o Elements(Five),
          <<Anchor(BadDate), Marker>> \o Elements(Five),
          <<Anchor(BadDate), Anchor(GoodDate), Marker>> \o Elements(Five)}

\* an entity that extract_companies does not return
C120 == <<"E", "3", "_", "1", "_", "1", "2", "0", ".", "c", "s", "v">>

TransformPaths == {A120, A130b, B120, C120}

PayloadsFor(file_path) ==
    IF PathEndsWith(file_path, Spell(".csv")) THEN CsvPayloads ELSE XbrlPayloads

RECURSIVE DocLists(_)
DocLists(n) == IF n = 0 THEN {<<>>}
               ELSE DocLists(n - 1) \cup
                    {Append(l, p) : l \in {m \in DocLists(n - 1) : Len(m) = n - 1},
                                    p \in TransformPaths}

\* what the files on disk hold, for every choice of payloads
Disks(file_paths) ==
    {d \in [Range(file_paths) -> CsvPayloads \cup XbrlPayloads] :
        \A f \in Range(file_paths) : d[f] \in PayloadsFor(f)}

NoCall == [i |-> 0, raised |-> FALSE, df |-> <<>>]

NoXf == [pc |-> "idle", file_paths |-> <<>>, disk |-> <<>>, selected_files |-> <<>>,
         i |-> 0, dfs |-> <<>>, result |-> <<>>, exc |-> "none", last |-> NoCall,
         tasks |-> <<>>]

\* selected_files = select_best_files_by_company(file_paths)
ProcessSelect ==
    /\ xf.pc = "process_financial_documents"
    /\ xf' = [xf EXCEPT !.pc = "loop", !.i = 1,
                        !.selected_files = select_best_files_by_company(xf.file_paths)]
    /\ UNCHANGED <<pc, exc, sel, parse, df_result, ld, log>>
    /\ UNCHANGED evars

\* for file_path in selected_files: one turn; an exception of
\* transform_financial_data leaves the function
ProcessDoc ==
    /\ xf.pc = "loop"
    /\ xf.i <= Len(xf.selected_files)
    /\ LET file_path == xf.selected_files[xf.i]
           r == transform_financial_data(file_path, company_info, xf.disk[file_path])
       IN  xf' = [xf EXCEPT !.pc = IF r.raised THEN "raised" ELSE "loop",
                            !.exc = r.exc,
                            !.dfs = IF r.df # <<>> THEN Append(@, r.df) ELSE @,
                            !.i = @ + 1,
                            !.last = [i |-> xf.i, raised |-> r.raised, df |-> r.df]]
    /\ UNCHANGED <<pc, exc, sel, parse, df_result, ld, log>>
    /\ UNCHANGED evars

\* return pd.DataFrame() or pd.concat(dfs, ignore_index=True)
ProcessReturn ==
    /\ xf.pc = "loop"
    /\ xf.i > Len(xf.selected_files)
    /\ xf' = [xf EXCEPT !.pc = "returned", !.result = Concat(xf.dfs)]
    /\ UNCHANGED <<pc, exc, sel, parse, df_result, ld, log>>
    /\ UNCHANGED evars

----------------------------------------------------------------------------
(* src/load.py and the end of main                                         *)

\* what main passes as output_path and file_name
OutputPath == "output"

FullFilePath == "output/japan_company_data"

LogEmptyAbort ==
    [level |-> "warning", msg |-> "Attempted to load an empty DataFrame to CSV. Aborting."]

LogLoaded == [level |-> "info", msg |-> "Data successfully loaded to CSV"]

LogWriteError == [level |-> "error", msg |-> "Error while writing CSV"]

LogNoData ==
    [level |-> "warning", msg |-> "No valid financial data found. Pipeline will terminate."]

LogCompleted == [level |-> "info", msg |-> "ETL pipeline completed successfully."]

\* what can go wrong in the try block: os.makedirs or df.to_csv raising
LoadFaults == {"none", "makedirs", "to_csv"}

\* the try block of load_to_csv: the exception it ends with, or "none"
LoadTry(df, dirs, files, fault) ==
    IF fault = "makedirs" THEN [exc |-> "OSError", dirs |-> dirs, files |-> files]
    ELSE IF fault = "to_csv"
    THEN [exc |-> "OSError", dirs |-> dirs \cup {OutputPath}, files |-> files]
    ELSE [exc |-> "none", dirs |-> dirs \cup {OutputPath},
          files |-> {f \in files : f.name # FullFilePath}
                    \cup {[name |-> FullFilePath, df |-> df]}]

load_to_csv_unhandled(df, dirs, files, fault) ==
    IF df = <<>>
    THEN [raised |-> FALSE, dirs |-> dirs, files |-> files, logged |-> <<LogEmptyAbort>>]
    ELSE LET t == LoadTry(df, dirs, files, fault)
         IN  IF t.exc = "none"
             THEN [raised |-> FALSE, dirs |-> t.dirs, files |-> t.files,
                   logged |-> <<LogLoaded>>]
             ELSE [raised |-> TRUE, dirs |-> t.dirs, files |-> t.files, logged |-> <<>>]

\* load_to_csv(df, output_path, file_name) on a file system
load_to_csv(df, dirs, files, fault) ==
    IF df = <<>>
    THEN [raised |-> FALSE, dirs |-> dirs, files |-> files, logged |-> <<LogEmptyAbort>>]
    ELSE LET t == LoadTry(df, dirs, files, fault)
         IN  IF t.exc = "none"
             THEN [raised |-> FALSE, dirs |-> t.dirs, files |-> t.files,
                   logged |-> <<LogLoaded>>]
             ELSE [raised |-> FALSE, dirs |-> t.dirs, files |-> t.files,
                   logged |-> <<LogWriteError>>]

NoLoad == [caller |-> "main", calls |-> 0, fault |-> "none", dirs |-> {}, files |-> {},
           dirs0 |-> {}, files0 |-> {}]

MainCheckSkipped ==
    /\ pc = "assembled"
    /\ pc' = "load_to_csv"
    /\ UNCHANGED <<exc, sel, parse, xf, df_result, ld, log>>
    /\ UNCHANGED evars

\* main: if df_result.empty: log a warning and return
MainCheckEmpty ==
    /\ pc = "assembled"
    /\ IF df_result = <<>>
       THEN /\ log' = Append(log, LogNoData)
            /\ pc' = "main_returned"
       ELSE /\ pc' = "load_to_csv"
            /\ UNCHANGED log
    /\ UNCHANGED <<exc, sel, parse, xf, df_result, ld>>
    /\ UNCHANGED evars

\* load_to_csv, called by main or on its own
LoadToCsv ==
    /\ pc = "load_to_csv"
    /\ \E fault \in LoadFaults :
         LET r == load_to_csv(df_result, ld.dirs, ld.files, fault)
         IN  /\ ld' = [ld EXCEPT !.calls = @ + 1,
                                 !.fault = IF df_result = <<>> THEN "none" ELSE fault,
                                 !.dirs = r.dirs, !.files = r.files]
             /\ log' = log \o r.logged
             /\ pc' = IF r.raised THEN "raised"
                      ELSE IF ld.caller = "main" THEN "loaded" ELSE "load_returned"
             /\ exc' = IF r.raised THEN "OSError" ELSE exc
    /\ UNCHANGED <<sel, parse, xf, df_result>>
    /\ UNCHANGED evars

\* main: the last log line
MainComplete ==
    /\ pc = "loaded"
    /\ log' = Append(log, LogCompleted)
    /\ pc' = "main_returned"
    /\ UNCHANGED <<exc, sel, parse, xf, df_result, ld>>
    /\ UNCHANGED evars

\* Tables load_to_csv is called on
LoadRecord(year, name, revenue) ==
    [year |-> year, companyname |-> name, industryclassification |-> "Foods",
     geonameen |-> "Japan", revenue |-> revenue, revenue_unit |-> "JPY"]

LoadRecords == {LoadRecord(2024, "Alpha", 50), LoadRecord(2023, "Alpha", 40),
                LoadRecord(2024, "Beta", -20), LoadRecord(2020, "Beta", 10)}

RECURSIVE LoadTables(_)
LoadTables(n) == IF n = 0 THEN {<<>>}
                 ELSE LoadTables(n - 1) \cup
                      {Append(l, r) : l \in {m \in LoadTables(n - 1) : Len(m) = n - 1},
                                      r \in LoadRecords}

\* the output directory before the call: absent, empty, or holding an older file
LoadDisks ==
    {[dirs |-> {}, files |-> {}],
     [dirs |-> {OutputPath}, files |-> {}],
     [dirs |-> {OutputPath},
      files |-> {[name |-> FullFilePath, df |-> <<LoadRecord(2019, "Alpha", 1)>>]}]}

----------------------------------------------------------------------------
(* main, step 5: process_financial_documents_concurrent, after              *)
(* processAll and the third barrier of the design: the selector, then one  *)
(* assembling task per selected path, a full join, and the concatenation   *)
(* of the non-empty results; a document that fails contributes no record.  *)

OutputDir == <<"d", "/">>

\* str(final_path) of a downloaded file
PathChars(path) ==
    OutputDir \o Spell(path.code) \o <<"_">> \o path.date \o <<"_">> \o Spell(path.type)
        \o Spell(path.ext)

\* what a downloaded file may hold: five facts, no fact, or nothing that parses
MainPayloads(file_path) ==
    IF PathEndsWith(file_path, Spell(".csv"))
    THEN {Table(CsvRows(Five) \o <<SentinelRow(GoodDate)>>),
          Table(CsvRows(<<>>) \o <<SentinelRow(GoodDate)>>),
          Table(<<SentinelRow(GoodDate)>>)}
    ELSE {<<Anchor(GoodDate), Marker>> \o Elements(Five),
          <<Anchor(GoodDate), Marker>>,
          <<Marker>> \o Elements(Five)}

ConcStart ==
    /\ pc = "download_returned"
    /\ LET file_paths == [k \in DOMAIN downloaded_files |-> PathChars(downloaded_files[k])]
           selected == select_best_files_by_company(file_paths)
       IN  xf' = [NoXf EXCEPT !.pc = "gather", !.file_paths = file_paths,
                              !.selected_files = selected,
                              !.tasks = [k \in DOMAIN selected |->
                                           [st |-> "pending", df |-> <<>>]]]
    /\ pc' = "parsing"
    /\ UNCHANGED <<exc, sel, parse, df_result, ld, log>>
    /\ UNCHANGED evars

ConcParse(k) ==
    /\ pc = "parsing"
    /\ k \in DOMAIN xf.tasks
    /\ xf.tasks[k].st = "pending"
    /\ \E payload \in MainPayloads(xf.selected_files[k]) :
         LET r == transform_financial_data(xf.selected_files[k], company_info, payload)
         IN  xf' = [xf EXCEPT !.tasks[k] = [st |-> "done", df |-> r.df]]
    /\ UNCHANGED <<pc, exc, sel, parse, df_result, ld, log>>
    /\ UNCHANGED evars

ConcJoin ==
    /\ pc = "parsing"
    /\ \A k \in DOMAIN xf.tasks : xf.tasks[k].st = "done"
    /\ df_result' = Concat([k \in DOMAIN xf.tasks |-> xf.tasks[k].df])
    /\ xf' = [xf EXCEPT !.pc = "returned"]
    /\ pc' = "assembled"
    /\ UNCHANGED <<exc, sel, parse, ld, log>>
    /\ UNCHANGED evars

----------------------------------------------------------------------------
(* Specifications *)

Quiet ==
    /\ exc = "none"
    /\ idxTasks = <<>>
    /\ doneQ = <<>>
    /\ documents = <<>>
    /\ dlTasks = <<>>
    /\ downloaded_files = <<>>
    /\ tempDirs = {}
    /\ outFiles = {}
    /\ lastSave = NoSave
    /\ nAcquire = 0
    /\ nIndexReq = 0
    /\ nContentReq = 0

\* the transform and load stages before they start
Idle ==
    /\ sel = NoSel
    /\ parse = NoParse
    /\ xf = NoXf
    /\ df_result = <<>>
    /\ ld = NoLoad
    /\ log = <<>>

\* the extract stage as it is when a function of the later stages is called alone
ExtractIdle ==
    /\ cfg = [start |-> 0, end |-> 0, max_retries |-> 0, hasLimit |-> FALSE, limit |-> 0]
    /\ remote = RemoteA
    /\ filtered_docs = <<>>
    /\ company_info = {}
    /\ Quiet

\* get_documents_by_date_range called on any pair of dates
IndexInit ==
    /\ cfg \in [start : Dates, end : Dates, max_retries : 0..MaxRetries,
                hasLimit : {FALSE}, limit : {0}]
    /\ (cfg.end - cfg.start + 1) * (cfg.max_retries + 1) <= IndexWork
    /\ remote \in {RemoteA, RemoteB}
    /\ pc = "get_documents_by_date_range"
    /\ filtered_docs = <<>>
    /\ company_info = {}
    /\ Quiet
    /\ Idle

IndexNext ==
    \/ RangeStart
    \/ \E i \in 1..(MaxDate + 1) : FetchAttempt(i)
    \/ \E i \in 1..(MaxDate + 1) : FetchWake(i)
    \/ RangeCollect
    \/ RangeReturn

SpecIndex == IndexInit /\ [][IndexNext]_vars

\* the lists of descriptors download_documents is called on
RECURSIVE ListsUpTo(_)
ListsUpTo(n) == IF n = 0 THEN {<<>>}
                ELSE ListsUpTo(n - 1) \cup
                     {Append(l, d) : l \in {m \in ListsUpTo(n - 1) : Len(m) = n - 1},
                                     d \in {D1, D2, D3}}

\* download_documents called on any short list, with and without a limit
DownloadInit ==
    /\ cfg \in [start : {0}, end : {0}, max_retries : 0..MaxRetries,
                hasLimit : BOOLEAN, limit : 0..MaxList]
    /\ cfg.hasLimit \/ cfg.limit = 0
    /\ remote = RemoteA
    /\ pc = "download_documents"
    /\ filtered_docs \in ListsUpTo(MaxList)
    /\ Len(filtered_docs) * (cfg.max_retries + 1) <= DownloadWork
    /\ company_info = {}
    /\ Quiet
    /\ Idle

DownloadNext ==
    \/ DownloadStart
    \/ \E i \in 1..MaxList : DownloadAttempt(i)
    \/ \E i \in 1..MaxList : DownloadWake(i)
    \/ GatherRaise
    \/ GatherReturn

SpecDownload == DownloadInit /\ [][DownloadNext]_vars

\* select_best_files_by_company called on any short list of paths
SelectInit ==
    /\ ExtractIdle
    /\ pc = "select_best_files_by_company"
    /\ \E P \in PathLists(MaxPaths) :
          sel = [NoSel EXCEPT !.pc = "loop", !.round = 1, !.input = P, !.file_paths = P,
                              !.i = 1]
    /\ parse = NoParse
    /\ xf = NoXf
    /\ df_result = <<>>
    /\ ld = NoLoad
    /\ log = <<>>

SelectNext ==
    \/ SelectStep
    \/ SelectReturn
    \/ SelectAgain

SpecSelect == SelectInit /\ [][SelectNext]_vars

\* parse_csv_file called on any short table
ParseCsvInit ==
    /\ ExtractIdle
    /\ pc = "parse_csv_file"
    /\ \E df \in Tables : parse = [NoParse EXCEPT !.pc = "parse_csv_file", !.payload = df]
    /\ sel = NoSel
    /\ xf = NoXf
    /\ df_result = <<>>
    /\ ld = NoLoad
    /\ log = <<>>

ParseCsvNext == ParseCsv

SpecParseCsv == ParseCsvInit /\ [][ParseCsvNext]_vars

\* process_financial_documents called on any short list of files, whatever
\* the files hold
TransformInit ==
    /\ cfg = [start |-> 0, end |-> 0, max_retries |-> 0, hasLimit |-> FALSE, limit |-> 0]
    /\ remote = RemoteA
    /\ filtered_docs = <<>>
    /\ company_info = extract_companies(CompanyRows)
    /\ Quiet
    /\ pc = "process_financial_documents"
    /\ \E P \in DocLists(MaxDocs) : \E d \in Disks(P) :
          xf = [NoXf EXCEPT !.pc = "process_financial_documents", !.file_paths = P,
                            !.disk = d]
    /\ sel = NoSel
    /\ parse = NoParse
    /\ df_result = <<>>
    /\ ld = NoLoad
    /\ log = <<>>

TransformNext ==
    \/ ProcessSelect
    \/ ProcessDoc
    \/ ProcessReturn

SpecTransform == TransformInit /\ [][TransformNext]_vars

\* main from the point where the table is assembled, and load_to_csv called
\* on its own, for any short table and output directory
LoadInit ==
    /\ ExtractIdle
    /\ sel = NoSel
    /\ parse = NoParse
    /\ xf = NoXf
    /\ log = <<>>
    /\ df_result \in LoadTables(MaxRecords)
    /\ \E caller \in {"main", "direct"} : \E d \in LoadDisks :
          /\ ld = [NoLoad EXCEPT !.caller = caller, !.dirs = d.dirs, !.files = d.files,
                                !.dirs0 = d.dirs, !.files0 = d.files]
          /\ pc = IF caller = "main" THEN "assembled" ELSE "load_to_csv"

LoadNext ==
    \/ MainCheckEmpty
    \/ LoadToCsv
    \/ MainComplete

SpecLoad == LoadInit /\ [][LoadNext]_vars

\* one call of parse_xbrl_file on each tree
ParseXbrlInit ==
    /\ ExtractIdle
    /\ pc = "parse_xbrl_file"
    /\ \E t \in Trees : parse = [NoParse EXCEPT !.pc = "parse_xbrl_file", !.payload = t]
    /\ sel = NoSel
    /\ xf = NoXf
    /\ df_result = <<>>
    /\ ld = NoLoad
    /\ log = <<>>

ParseXbrlNext == ParseXbrl

SpecParseXbrl == ParseXbrlInit /\ [][ParseXbrlNext]_vars

\* download_documents on an event loop that runs every coroutine that is ready:
\* each request and each sleep finishes, and gather resumes its caller
DownloadFairness ==
    /\ WF_vars(DownloadStart)
    /\ \A i \in 1..(MaxList + 1) : WF_vars(DownloadAttempt(i)) /\ WF_vars(DownloadWake(i))
    /\ WF_vars(GatherRaise)
    /\ WF_vars(GatherReturn)

FairDownload == DownloadInit /\ [][DownloadNext]_vars /\ DownloadFairness

\* one run of main
Init ==
    /\ cfg \in [start : Dates, end : Dates, max_retries : 0..MaxRetries,
                hasLimit : BOOLEAN, limit : 0..MaxList]
    /\ cfg.hasLimit \/ cfg.limit = 0
    /\ (cfg.end - cfg.start + 1) * (cfg.max_retries + 1) <= MainWork
    /\ remote = RemoteA
    /\ pc = "main"
    /\ filtered_docs = <<>>
    /\ company_info = {}
    /\ Quiet
    /\ Idle

Next ==
    \/ MainExtractCompanies
    \/ RangeStart
    \/ \E i \in 1..(MaxDate + 1) : FetchAttempt(i)
    \/ \E i \in 1..(MaxDate + 1) : FetchWake(i)
    \/ RangeCollect
    \/ RangeReturn
    \/ MainFilter
    \/ DownloadStart
    \/ \E i \in 1..Len(dlTasks) : DownloadAttempt(i)
    \/ \E i \in 1..Len(dlTasks) : DownloadWake(i)
    \/ GatherRaise
    \/ GatherReturn
    \/ ConcStart
    \/ \E k \in 1..MaxList : ConcParse(k)
    \/ ConcJoin
    \/ MainCheckEmpty
    \/ LoadToCsv
    \/ MainComplete

Spec == Init /\ [][Next]_vars

----------------------------------------------------------------------------
(* Properties *)

IdxSet == {idxTasks[k] : k \in DOMAIN idxTasks}

DlSet == {dlTasks[k] : k \in DOMAIN dlTasks}

\* C1: download_document_with_retry never lets an exception out: whatever
\* the requests bring, it ends by returning a path or None.
C1_NeverRaises ==
    \A t \in DlSet : t.st # "raised"

\* C2: a retry loop that returns after every one of its attempts has failed
\* has made exactly max_retries + 1 invocations and exactly max_retries
\* waits, in the index loop and in the content loop alike.
C2_ExhaustedCounts ==
    /\ \A t \in IdxSet :
         (t.st \in {"done", "collected"} /\ t.nFail = t.calls)
            => (t.ret = <<>> /\ t.calls = cfg.max_retries + 1 /\ t.nWaits = cfg.max_retries)
    /\ \A t \in DlSet :
         (t.st = "done" /\ t.calls > 0 /\ t.nFail = t.calls)
            => (t.ret = <<>> /\ t.calls = cfg.max_retries + 1 /\ t.nWaits = cfg.max_retries)

\* C3: a loop whose operation fails K <= max_retries times and then succeeds
\* returns the success value after K + 1 invocations and K waits, and the
\* wait after failure i is at least retry_delay * 2^i * floor (floor 0.1
\* for the index loop, 0.5 for the content loop): no loop raises, a loop
\* that ends on a success has waited once per failure, and every wait that
\* a further attempt follows respects the floor.
C3_SuccessAfterFailures ==
    /\ \A t \in IdxSet :
         /\ (t.st \in {"done", "collected"} /\ t.last.kind = "ok")
               => (t.ret = remote[t.date] /\ t.calls = t.nFail + 1 /\ t.nWaits = t.nFail)
         /\ (t.st = "sleeping" /\ t.attempt < cfg.max_retries)
               => t.wait.amount >= RetryDelay * Pow2(t.nFail - 1) * IndexJitterFloor
    /\ \A t \in DlSet :
         /\ t.st # "raised"
         /\ (t.st = "done" /\ t.saved = "saved")
               => (Len(t.ret) = 1 /\ t.calls = t.nFail + 1 /\ t.nWaits = t.nFail)
         /\ (t.st = "sleeping" /\ t.attempt < cfg.max_retries)
               => t.wait.amount >= RetryDelay * Pow2(t.nFail - 1) * ContentJitterFloor

\* the seconds a 429 rejection asks for: its Retry-After hint, 10 without one
HintSeconds(hdr) == IF hdr.present THEN IntOf(hdr.value) ELSE DefaultRetryAfter

\* C5: after a 429 rejection either loop waits exactly the hinted number of
\* seconds (10 when there is no hint), not the computed backoff.
C5_RateLimitWait ==
    \A t \in IdxSet \cup DlSet :
        (t.st = "sleeping" /\ t.last.kind = "http429"
           /\ (t.last.hdr.present => IsIntLiteral(t.last.hdr.value)))
        => t.wait.amount = 10 * HintSeconds(t.last.hdr)

\* the descriptors a date contributes: those of its 2xx answer, none when
\* the task gave up
RECURSIVE Contribution(_)
Contribution(tasks) ==
    IF tasks = <<>> THEN EmptyBag
    ELSE (IF Head(tasks).last.kind = "ok" /\ Head(tasks).calls <= cfg.max_retries + 1
          THEN SeqToBag(remote[Head(tasks).date]) ELSE EmptyBag)
         (+) Contribution(Tail(tasks))

\* C6: get_documents_by_date_range runs one fetch task per date of the
\* inclusive range, raises for no valid range, and returns as a multiset
\* exactly the descriptors of the dates whose request succeeded within the
\* retry ceiling; a date that failed adds nothing and takes nothing away.
C6_RangeMerge ==
    /\ (cfg.start <= cfg.end) => (pc # "raised" /\ exc = "none")
    /\ pc \in {"as_completed", "range_returned"} =>
         /\ Len(idxTasks) = cfg.end - cfg.start + 1
         /\ \A k \in DOMAIN idxTasks : idxTasks[k].date = cfg.start + k - 1
    /\ pc = "range_returned" =>
         /\ SeqToBag(documents) = Contribution(idxTasks)
         /\ \A t \in IdxSet : t.calls \in 1..(cfg.max_retries + 1)

C6_Witness ==
    /\ pc = "range_returned"
    /\ Len(idxTasks) = 3
    /\ cfg.max_retries >= 1
    /\ idxTasks[2].last.kind \in {"neterr", "http429"}
    /\ idxTasks[2].calls = cfg.max_retries + 1
    /\ idxTasks[1].last.kind = "ok" /\ idxTasks[1].nFail >= 1
    /\ idxTasks[3].last.kind = "ok"
    /\ Len(documents) = Len(remote[cfg.start]) + Len(remote[cfg.end])
    /\ Len(documents) >= 3

\* C7: with start_date later than end_date the run never gets past
\* get_documents_by_date_range: no fetch task is made, no index or content
\* request is issued and the limiter grants nothing.
C7_InvalidRange ==
    (cfg.start > cfg.end) =>
        /\ pc \in {"main", "get_documents_by_date_range", "raised"}
        /\ idxTasks = <<>> /\ dlTasks = <<>>
        /\ nIndexReq = 0 /\ nContentReq = 0 /\ nAcquire = 0
        /\ pc = "raised" => exc = "ValueError: start_date must be <= end_date"

C7_Witness ==
    /\ cfg.start > cfg.end
    /\ pc = "raised"
    /\ exc = "ValueError: start_date must be <= end_date"
    /\ company_info # {}

\* C8: once save_and_extract_document has returned for a document, whatever
\* the outcome (saved, bad archive, no file of the extension, copy failed),
\* the directory temp/{docID} is gone; stated for the runs in which removing
\* a directory works.
C8_TempRemoved ==
    (lastSave.returned /\ lastSave.rmOk) => ~lastSave.tempExists

RECURSIVE SumReq(_)
SumReq(tasks) == IF tasks = <<>> THEN 0 ELSE Head(tasks).nReq + SumReq(Tail(tasks))

\* C9: a content fetch asks for one encoding only: type 5 and .csv when the
\* csv flag is set (with or without the xbrl flag), else type 1 and .xbrl when
\* the xbrl flag is set, else it returns None at once with no request, no
\* limiter slot, no retry and no wait.
C9_EncodingPriority ==
    /\ nAcquire = SumReq(dlTasks) /\ nContentReq = SumReq(dlTasks)
    /\ \A t \in DlSet :
         /\ (t.doc.csvFlag = "1" /\ t.calls > 0)
               => (t.reqType = "5" /\ t.nReq = t.calls
                   /\ \A f \in Range(t.ret) : f.ext = ".csv")
         /\ (t.doc.csvFlag # "1" /\ t.doc.xbrlFlag = "1" /\ t.calls > 0)
               => (t.reqType = "1" /\ t.nReq = t.calls
                   /\ \A f \in Range(t.ret) : f.ext = ".xbrl")
         /\ (t.doc.csvFlag # "1" /\ t.doc.xbrlFlag # "1")
               => /\ t.reqType = "none" /\ t.nReq = 0 /\ t.nWaits = 0
                  /\ t.st \in {"ready", "done"}
                  /\ t.calls > 0 => (t.st = "done" /\ t.ret = <<>> /\ t.calls = 1)

C9_Witness ==
    /\ pc = "download_returned"
    /\ Len(dlTasks) = 2
    /\ dlTasks[1].doc = D3 /\ dlTasks[1].st = "done" /\ dlTasks[1].calls = 1
    /\ dlTasks[2].doc = D1 /\ dlTasks[2].saved = "saved" /\ dlTasks[2].nFail = 1
    /\ nAcquire = 2

Succeeded(t) == t.st = "done" /\ t.saved = "saved"

\* C10: download_documents works on the first `limit` descriptors only (on
\* all without a limit) and, when it is over, its result holds exactly the
\* paths of those whose fetch succeeded: one failure never costs another
\* descriptor its path.
C10_ResultComplete ==
    /\ pc \in {"gather", "download_returned", "raised"} =>
         /\ Len(dlTasks) = (IF cfg.hasLimit THEN Min(cfg.limit, Len(filtered_docs))
                            ELSE Len(filtered_docs))
         /\ \A k \in DOMAIN dlTasks : dlTasks[k].doc = filtered_docs[k]
    /\ pc \in {"download_returned", "raised"} =>
         /\ \A t \in DlSet : Succeeded(t) => t.ret[1] \in Range(downloaded_files)
         /\ Len(downloaded_files) = Cardinality({k \in DOMAIN dlTasks : Succeeded(dlTasks[k])})


----------------------------------------------------------------------------
(* Properties of select_best_files_by_company *)

Matches(p) == pattern_search(basename(p)).ok

\* the entity code in a path whose name matches
CodeOf(p) == <<"E">> \o pattern_search(basename(p)).group1

Is130(p) == pattern_search(basename(p)).group2 = <<"1", "3", "0">>

Codes(P) == {CodeOf(P[k]) : k \in {j \in DOMAIN P : Matches(P[j])}}

\* where the paths of entity c are in P, and where its type-130 paths are
PosOf(P, c) == {k \in DOMAIN P : Matches(P[k]) /\ CodeOf(P[k]) = c}

Pos130(P, c) == {k \in PosOf(P, c) : Is130(P[k])}

SetMax(S) == CHOOSE k \in S : \A j \in S : j <= k

SetMin(S) == CHOOSE k \in S : \A j \in S : k <= j

SelectedSet(R, c) == {R[k] : k \in PosOf(R, c)}

Perms(P) ==
    {[k \in DOMAIN P |-> P[f[k]]] :
        f \in {g \in [DOMAIN P -> DOMAIN P] :
                 \A a, b \in DOMAIN P : a # b => g[a] # g[b]}}

SelectDone == sel.pc = "returned" /\ sel.round = 1

\* C11: the list returned holds exactly one path for each entity code that
\* occurs in a matching path of the input; every path returned is a path of
\* the input, and its name matches the pattern.
C11_OnePerEntity ==
    SelectDone =>
        /\ \A c \in Codes(sel.input) : Cardinality(PosOf(sel.selected_files, c)) = 1
        /\ \A k \in DOMAIN sel.selected_files :
              /\ sel.selected_files[k] \in Range(sel.input)
              /\ Matches(sel.selected_files[k])

C11_Witness ==
    /\ SelectDone
    /\ Unmatched \in Range(sel.input)
    /\ Len(sel.input) = 3
    /\ Len(sel.selected_files) = 2

\* C12: for every entity, the path selected is the last type-130 path of the
\* entity in input order if it has one, and its first path otherwise;
\* [A130, A120] and [A120, A130] give A130, [A130a, A130b] gives A130b.
C12_LastCorrectedElseFirst ==
    SelectDone =>
        /\ \A c \in Codes(sel.input) :
              SelectedSet(sel.selected_files, c) =
                 {IF Pos130(sel.input, c) # {}
                  THEN sel.input[SetMax(Pos130(sel.input, c))]
                  ELSE sel.input[SetMin(PosOf(sel.input, c))]}
        /\ sel.input = <<A130a, A120>> => sel.selected_files = <<A130a>>
        /\ sel.input = <<A120, A130a>> => sel.selected_files = <<A130a>>
        /\ sel.input = <<A130a, A130b>> => sel.selected_files = <<A130b>>

C12_Witness ==
    /\ SelectDone
    /\ sel.input = <<A130a, A130b, A120>>
    /\ sel.selected_files = <<A130b>>

\* C13: the function called on its own result returns that result.
C13_Idempotent ==
    (sel.pc = "returned" /\ sel.round = 2) => sel.selected_files = sel.first

C13_Witness ==
    /\ sel.pc = "returned"
    /\ sel.round = 2
    /\ Len(sel.first) = 2
    /\ Len(sel.input) = 3
    /\ \E c \in Codes(sel.input) : Pos130(sel.input, c) # {}

\* C14 as stated: for every entity with at most one type-130 path in the
\* input, every permutation of the input selects the same path for it.
C14_OrderFree ==
    SelectDone =>
        \A c \in Codes(sel.input) :
            Cardinality(Pos130(sel.input, c)) <= 1 =>
                \A Q \in Perms(sel.input) :
                    SelectedSet(select_best_files_by_company(Q), c) =
                        SelectedSet(sel.selected_files, c)

\* C14, amended: for every entity with exactly one type-130 path in the
\* input, or with one path in all, every permutation of the input selects
\* the same path for it.
C14_OrderFreeOneCorrected ==
    SelectDone =>
        \A c \in Codes(sel.input) :
            (Cardinality(Pos130(sel.input, c)) = 1 \/ Cardinality(PosOf(sel.input, c)) = 1) =>
                \A Q \in Perms(sel.input) :
                    SelectedSet(select_best_files_by_company(Q), c) =
                        SelectedSet(sel.selected_files, c)

C14_Witness ==
    /\ SelectDone
    /\ \E c \in Codes(sel.input) :
          /\ Cardinality(Pos130(sel.input, c)) = 1
          /\ Cardinality(PosOf(sel.input, c)) = 3
          /\ Is130(sel.input[1])


----------------------------------------------------------------------------
(* Properties of parse_csv_file *)

\* the rows after the second data row that share its element-id
LaterRows(df) ==
    LET IsLater(row) == row.idx > 1 /\ row.id = df[2].id
    IN  SelectSeq(df, IsLater)

\* C15 as stated: when the second data row has element-id X and five later
\* rows have it too, the facts returned are those five rows in table order,
\* whatever else the table holds.
C15_FiveLaterRows ==
    (parse.pc # "parse_csv_file" /\ Len(parse.payload) >= 2
        /\ Len(LaterRows(parse.payload)) = 5) =>
            /\ parse.pc = "returned"
            /\ parse.revenue_data = LaterRows(parse.payload)

\* C15, amended: when the table has a fiscal-year sentinel row whose value
\* is a date, its first data row has another element-id than the second, and
\* five or more later rows share the second row's element-id, the facts
\* returned are the first five of those later rows in table order.
C15_FiveLaterRowsAfterHeader ==
    (parse.pc # "parse_csv_file" /\ Len(parse.payload) >= 2
        /\ (\E k \in DOMAIN parse.payload : parse.payload[k].id = SentinelId)
        /\ (\A k \in DOMAIN parse.payload :
               parse.payload[k].id = SentinelId => to_datetime(parse.payload[k].val).ok)
        /\ parse.payload[1].id # parse.payload[2].id
        /\ Len(LaterRows(parse.payload)) >= 5) =>
            /\ parse.pc = "returned"
            /\ parse.revenue_data = SubSeq(LaterRows(parse.payload), 1, 5)

C15_Witness ==
    /\ parse.pc = "returned"
    /\ Len(parse.payload) = 8
    /\ parse.payload[1].id = "Y"
    /\ parse.payload[2].id = "X"
    /\ parse.payload[3].id = SentinelId
    /\ Len(LaterRows(parse.payload)) = 5
    /\ Len(parse.revenue_data) = 5


----------------------------------------------------------------------------
(* Properties of transform_financial_data and process_financial_documents *)

\* what the parser of the file's encoding makes of what the file holds
ParsedFile(file_path) ==
    IF PathEndsWith(file_path, Spell(".csv")) THEN parse_csv_file(xf.disk[file_path])
    ELSE parse_xbrl_file(xf.disk[file_path])

EntityPresent(file_path) ==
    \E row \in company_info : Spell(row.code) = SplitHead(basename(file_path))

Offset(label) ==
    CASE label = "CurrentYearDuration" -> 0
      [] label = "Prior1YearDuration" -> -1
      [] label = "Prior2YearDuration" -> -2
      [] label = "Prior3YearDuration" -> -3
      [] label = "Prior4YearDuration" -> -4
      [] OTHER -> 1

KnownLabels == {"CurrentYearDuration", "Prior1YearDuration", "Prior2YearDuration",
                "Prior3YearDuration", "Prior4YearDuration"}

Kept(fact) == fact.ctx \in KnownLabels /\ PyIntOk(fact.val)

\* the document of the latest call of transform_financial_data
LastFile == xf.selected_files[xf.last.i]

\* C16: for a document of an entity of the reference set whose payload
\* parses, the records emitted are, in order, one for each extracted fact
\* with a known period indicator and an integer value, with year = fiscal
\* year + offset of the indicator and revenue = the integer; each other fact
\* is dropped and lowers the number of records by one.
C16_RecordPerFact ==
    (xf.last.i > 0 /\ EntityPresent(LastFile) /\ ~ParsedFile(LastFile).raised) =>
        LET facts == ParsedFile(LastFile).revenue_data
            anchor == ParsedFile(LastFile).fiscal_year[1]
            kept == SelectSeq(facts, Kept)
            dropped == {k \in DOMAIN facts : ~Kept(facts[k])}
        IN  /\ ~xf.last.raised
            /\ Len(xf.last.df) = Len(facts) - Cardinality(dropped)
            /\ \A k \in DOMAIN kept :
                  /\ xf.last.df[k].year = anchor + Offset(kept[k].ctx)
                  /\ xf.last.df[k].revenue = PyInt(kept[k].val)

C16_Witness ==
    /\ xf.last.i > 0
    /\ EntityPresent(LastFile)
    /\ ~ParsedFile(LastFile).raised
    /\ Len(ParsedFile(LastFile).revenue_data) = 5
    /\ ParsedFile(LastFile).revenue_data[2].ctx = "CurrentYearInstant"
    /\ Len(xf.last.df) = 4
    /\ xf.last.df[4].year = 2020

\* the payloads that cannot be parsed
Unparseable(file_path) ==
    IF PathEndsWith(file_path, Spell(".csv"))
    THEN \/ Len(xf.disk[file_path]) < 2
         \/ \A k \in DOMAIN xf.disk[file_path] : xf.disk[file_path][k].id # SentinelId
    ELSE \A k \in DOMAIN xf.disk[file_path] :
            ~ /\ EndsWith(xf.disk[file_path][k].tag, "CurrentPeriodEndDateDEI")
              /\ xf.disk[file_path][k].text # <<>>
              /\ to_datetime(xf.disk[file_path][k].text).ok

\* the records of the selected documents that parse, in selection order
RECURSIVE ParseableRecords(_)
ParseableRecords(files) ==
    IF files = <<>> THEN <<>>
    ELSE (IF Unparseable(Head(files)) THEN <<>>
          ELSE transform_financial_data(Head(files), company_info, xf.disk[Head(files)]).df)
         \o ParseableRecords(Tail(files))

\* C17: when process_financial_documents has ended and one of the selected
\* documents cannot be parsed, it has returned, and the combined result holds
\* the records of every other selected document and none of that one.
C17_UnparseableSkipped ==
    (xf.pc \in {"returned", "raised"}
        /\ \E k \in DOMAIN xf.selected_files : Unparseable(xf.selected_files[k])) =>
            /\ xf.pc = "returned"
            /\ xf.result = ParseableRecords(xf.selected_files)


----------------------------------------------------------------------------
(* Properties of load_to_csv and of the end of main *)

\* C18: when the assembled table is empty, main returns without calling
\* load_to_csv and the output directory is as it was; load_to_csv called with
\* an empty table creates no file and no directory and logs a warning.
C18_EmptyNotWritten ==
    /\ (ld.caller = "main" /\ df_result = <<>>) =>
          /\ pc \in {"assembled", "main_returned"}
          /\ ld.calls = 0
          /\ ld.dirs = ld.dirs0 /\ ld.files = ld.files0
          /\ pc = "main_returned" => log = <<LogNoData>>
    /\ (ld.caller = "direct" /\ df_result = <<>>) =>
          /\ pc \in {"load_to_csv", "load_returned"}
          /\ ld.dirs = ld.dirs0 /\ ld.files = ld.files0
          /\ pc = "load_returned" => log = <<LogEmptyAbort>>

C18_Witness ==
    /\ ld.caller = "main"
    /\ df_result = <<>>
    /\ pc = "main_returned"
    /\ ld.calls = 0
    /\ ld.dirs = {}

\* C19: when makedirs or to_csv fails in load_to_csv, the call logs an error
\* and returns to its caller; no exception leaves it.
C19_WriteErrorLogged ==
    (ld.calls > 0 /\ ld.fault # "none") =>
        /\ pc \in {"loaded", "load_returned", "main_returned"}
        /\ exc = "none"
        /\ log[1] = LogWriteError

C19_Witness ==
    /\ ld.calls = 1
    /\ ld.fault = "to_csv"
    /\ pc = "load_returned"
    /\ ld.files = {}
    /\ log = <<LogWriteError>>


----------------------------------------------------------------------------
(* Properties of the pipeline as a whole *)

AfterIndex == {"range_returned", "download_documents", "gather", "download_returned",
               "parsing", "assembled", "load_to_csv", "loaded", "main_returned"}

AfterDownload == {"download_returned", "parsing", "assembled", "load_to_csv", "loaded",
                  "main_returned"}

AfterParse == {"assembled", "load_to_csv", "loaded", "main_returned"}

\* C20: a content request is issued only after get_documents_by_date_range
\* has returned, which it does with every index task awaited; documents are
\* selected and parsed only after download_documents has returned, with every
\* content task done; load_to_csv is called only after every selected
\* document has been parsed.
C20_StagesJoined ==
    /\ (nContentReq > 0 \/ dlTasks # <<>>) => (pc \in AfterIndex \/ pc = "raised")
    /\ pc = "range_returned" =>
          /\ doneQ = <<>>
          /\ \A i \in DOMAIN idxTasks : idxTasks[i].st = "collected"
    /\ xf.pc # "idle" => pc \in AfterDownload \ {"download_returned"}
    /\ pc \in AfterDownload => \A i \in DOMAIN dlTasks : dlTasks[i].st = "done"
    /\ ld.calls > 0 => pc \in AfterParse
    /\ pc \in AfterParse => \A k \in DOMAIN xf.tasks : xf.tasks[k].st = "done"

C20_Witness ==
    /\ pc = "main_returned"
    /\ ld.calls = 1
    /\ nIndexReq >= 2
    /\ nContentReq >= 2
    /\ Len(xf.tasks) = 1
    /\ Len(df_result) = 5

----------------------------------------------------------------------------
(* parse_xbrl_file *)

\* the positions of the markers of a tree, and the (at most five) positions
\* right after its first marker
MarkerPositions(t) == {k \in DOMAIN t : \E p \in DOMAIN t[k].tag :
                                          t[k].tag[p] = "NumberOfSubmissionDEI"}

Window(t) ==
    IF MarkerPositions(t) = {} THEN {}
    ELSE {k \in DOMAIN t : /\ k > SetMin(MarkerPositions(t))
                           /\ k <= SetMin(MarkerPositions(t)) + 5}

Qualifying(t) == {k \in Window(t) : t[k].contextRef # <<>> /\ t[k].text # <<>>}

XbrlReturned == pc = "parse_xbrl_file" /\ parse.pc = "returned"

\* C21: when parse_xbrl_file returns, its facts are, in document order, those
\* of the elements among the five right after the first marker that carry a
\* context reference and a text, each with its unitRef or "JPY"; there are at
\* most five, and no element outside that window contributes
C21_WindowAfterFirstMarker ==
    XbrlReturned =>
        LET t == parse.payload
            facts == parse.revenue_data
            q == Qualifying(t)
        IN  /\ Len(facts) = Cardinality(q)
            /\ Len(facts) <= 5
            /\ \A k \in q :
                 LET n == Cardinality({j \in q : j <= k})
                 IN  /\ facts[n].ctx = t[k].contextRef[1]
                     /\ facts[n].val = t[k].text
                     /\ facts[n].unit = IF t[k].unitRef = <<>> THEN "JPY"
                                        ELSE t[k].unitRef[1]

\* two markers with more than five elements after the first, a window holding
\* an element that does not qualify, a fact with a unit and one without
C21_Witness ==
    /\ XbrlReturned
    /\ Cardinality(MarkerPositions(parse.payload)) >= 2
    /\ Len(parse.payload) > SetMin(MarkerPositions(parse.payload)) + 5
    /\ Qualifying(parse.payload) # Window(parse.payload)
    /\ \E k \in DOMAIN parse.revenue_data : parse.revenue_data[k].unit = "JPY"
    /\ \E k \in DOMAIN parse.revenue_data : parse.revenue_data[k].unit = "USD"
    /\ \E k \in Qualifying(parse.payload) :
         k > SetMin(MarkerPositions(parse.payload) \ {SetMin(MarkerPositions(parse.payload))})

----------------------------------------------------------------------------
(* main after load_to_csv *)

\* C25: main logs its completion line only in runs whose load_to_csv wrote
\* the output file: after a failed makedirs or to_csv the line is not logged.
C25_SuccessOnlyWhenWritten ==
    (\E k \in DOMAIN log : log[k] = LogCompleted) =>
        /\ ld.calls = 1
        /\ ld.fault = "none"
        /\ [name |-> FullFilePath, df |-> df_result] \in ld.files

----------------------------------------------------------------------------
(* download_document_with_retry: the backoff after a server-hinted wait *)

\* the exponents e for which amount is a backoff retry_delay * 2^e * jitter
ExponentsOf(amount) == {e \in 0..(MaxRetries + 1) : \E r \in Jitter : amount = ContentBackoff(e, r)}

\* C24: a server-hinted wait does not advance the exponential backoff: when a
\* fetch whose previous failure was a rate-limit rejection fails otherwise and
\* backs off, the exponent of that backoff is the number of its earlier
\* failures that were no rate-limit rejections, hence below the number of
\* all its earlier failures (the loop index).
C24_HintKeepsExponent ==
    [][\A i \in DOMAIN dlTasks :
         (/\ i \in DOMAIN dlTasks'
          /\ dlTasks[i].st = "ready"
          /\ dlTasks[i].last.kind = "http429"
          /\ dlTasks'[i].st = "sleeping"
          /\ ~dlTasks'[i].wait.hinted)
         => \E e \in ExponentsOf(dlTasks'[i].wait.amount) : e < dlTasks[i].attempt]_vars

----------------------------------------------------------------------------
(* Termination *)

InvalidRangeRejected == pc = "raised" /\ exc = "ValueError: start_date must be <= end_date"

\* the requests of every fetch stay within max_retries + 1
RequestsBounded ==
    /\ \A t \in IdxSet : t.calls <= cfg.max_retries + 1
    /\ \A t \in DlSet : t.nReq <= cfg.max_retries + 1

\* C23: when every request and every wait finishes, every index fetch and
\* every content fetch returns after at most max_retries + 1 requests, so
\* get_documents_by_date_range and download_documents reach their join and
\* the run of main reaches its end (or rejects an inverted date range).
C23_Terminates ==
    /\ []RequestsBounded
    /\ <>(pc \in {"download_returned", "main_returned"} \/ InvalidRangeRejected)

----------------------------------------------------------------------------
(* The eligible entities *)

Filtered == pc \in {"download_documents", "gather", "download_returned", "parsing",
                    "assembled", "load_to_csv", "loaded", "main_returned"}

EligibleCodes == {row.code : row \in company_info}

Eligible(doc) == doc.edinetCode \in EligibleCodes /\ doc.docTypeCode \in target_doc_types

\* C22: every content request is for a descriptor whose entity is listed,
\* consolidated and named and whose document type is in target_doc_types, and
\* the entities filter_documents keeps descriptors of are those of
\* company_info, the set the records are assembled with.
C22_EligibleOnly ==
    /\ \A i \in DOMAIN dlTasks : dlTasks[i].nReq > 0 => Eligible(dlTasks[i].doc)
    /\ Filtered => filtered_docs = SelectSeq(documents, Eligible)

====
